---- MODULE Spec2Model ----
(***************************************************************************)
(* Serverless Spark log tools: the get-session-logs and get-batch-logs     *)
(* tool invocations (Tool.Invoke), the window resolution they perform      *)
(* against resource metadata, and the bounded log fetch of the source      *)
(* (Source.GetSessionLogs / GetBatchLogs).                                 *)
(*                                                                         *)
(* Strings whose content the code inspects (ids, timestamps) are sequences *)
(* of one-character strings, so that strings.Contains, time.Parse and      *)
(* Time.Format are computed rather than assumed.                           *)
(***************************************************************************)
EXTENDS Integers, Sequences, FiniteSets, TLC

\* ------------------------------------------------------------------------
\* Bounds of the model
\* ------------------------------------------------------------------------

\* longest backend log sequence
MaxLogs == 3

\* largest limit a caller asks for
MaxLimit == 2

\* ------------------------------------------------------------------------
\* Characters and strings
\* ------------------------------------------------------------------------

Digits == <<"0", "1", "2", "3", "4", "5", "6", "7", "8", "9">>

IsDigit(c) == \E i \in 1..10 : Digits[i] = c

DigitVal(c) == (CHOOSE i \in 1..10 : Digits[i] = c) - 1

\* strings.Contains(s, c) for a one-character needle
Contains(s, c) == \E i \in 1..Len(s) : s[i] = c

\* the empty Go string
EmptyStr == << >>

\* value of the decimal digits s[from..to]
RECURSIVE Atoi(_, _, _)
Atoi(s, from, to) ==
    IF to < from THEN 0
    ELSE 10 * Atoi(s, from, to - 1) + DigitVal(s[to])

AllDigits(s, from, to) == \A i \in from..to : IsDigit(s[i])

\* decimal rendering of n on exactly w digits (zero padded)
RECURSIVE Pad(_, _)
Pad(n, w) ==
    IF w = 0 THEN << >>
    ELSE Append(Pad(n \div 10, w - 1), Digits[(n % 10) + 1])

\* ------------------------------------------------------------------------
\* time.Time, time.Parse(time.RFC3339, s) and Time.Format(time.RFC3339)
\* ------------------------------------------------------------------------

IsLeap(y) == (y % 4 = 0 /\ y % 100 # 0) \/ y % 400 = 0

DaysIn(y, m) ==
    IF m = 2 THEN (IF IsLeap(y) THEN 29 ELSE 28)
    ELSE IF m \in {4, 6, 9, 11} THEN 30 ELSE 31

\* the zero time.Time (January 1, year 1, 00:00:00 UTC)
ZeroTime == [year |-> 1, month |-> 1, day |-> 1, hour |-> 0, min |-> 0, sec |-> 0, off |-> 0]

\* length of the fixed part "2006-01-02T15:04:05"
StampLen == 19

\* index of the first character after an optional fractional second
FracEnd(s) ==
    IF Len(s) > StampLen /\ s[StampLen + 1] \in {".", ","}
    THEN CHOOSE j \in (StampLen + 2)..(Len(s) + 1) :
            /\ AllDigits(s, StampLen + 2, j - 1)
            /\ (j = Len(s) + 1 \/ ~IsDigit(s[j]))
    ELSE StampLen + 1

\* a fractional second, when there is one, has at least one digit
FracOk(s) ==
    (Len(s) > StampLen /\ s[StampLen + 1] \in {".", ","}) => FracEnd(s) > StampLen + 2

\* the zone "Z" or a numeric offset "+hh:mm" / "-hh:mm" starting at index z
ZoneOk(s, z) ==
    \/ Len(s) = z /\ s[z] = "Z"
    \/ /\ Len(s) = z + 5
       /\ s[z] \in {"+", "-"}
       /\ AllDigits(s, z + 1, z + 2)
       /\ s[z + 3] = ":"
       /\ AllDigits(s, z + 4, z + 5)
       /\ Atoi(s, z + 1, z + 2) <= 23
       /\ Atoi(s, z + 4, z + 5) <= 59

ZoneOffset(s, z) ==
    IF s[z] = "Z" THEN 0
    ELSE (IF s[z] = "-" THEN -1 ELSE 1)
            * (60 * Atoi(s, z + 1, z + 2) + Atoi(s, z + 4, z + 5))

\* err == nil of time.Parse(time.RFC3339, s)
ValidRFC3339(s) ==
    /\ Len(s) > StampLen
    /\ AllDigits(s, 1, 4) /\ s[5] = "-"
    /\ AllDigits(s, 6, 7) /\ s[8] = "-"
    /\ AllDigits(s, 9, 10) /\ s[11] = "T"
    /\ AllDigits(s, 12, 13) /\ s[14] = ":"
    /\ AllDigits(s, 15, 16) /\ s[17] = ":"
    /\ AllDigits(s, 18, 19)
    /\ Atoi(s, 6, 7) \in 1..12
    /\ Atoi(s, 9, 10) \in 1..DaysIn(Atoi(s, 1, 4), Atoi(s, 6, 7))
    /\ Atoi(s, 12, 13) <= 23
    /\ Atoi(s, 15, 16) <= 59
    /\ Atoi(s, 18, 19) <= 59
    /\ FracOk(s)
    /\ ZoneOk(s, FracEnd(s))

\* time.Parse(time.RFC3339, s): the time (whole seconds) or the parse error
ParseRFC3339(s) ==
    IF ValidRFC3339(s)
    THEN [ok |-> TRUE,
          t  |-> [year |-> Atoi(s, 1, 4), month |-> Atoi(s, 6, 7), day |-> Atoi(s, 9, 10),
                  hour |-> Atoi(s, 12, 13), min |-> Atoi(s, 15, 16), sec |-> Atoi(s, 18, 19),
                  off |-> ZoneOffset(s, FracEnd(s))]]
    ELSE [ok |-> FALSE, t |-> ZeroTime]

\* the zone suffix Format writes for an offset in minutes
FormatZone(off) ==
    IF off = 0 THEN <<"Z">>
    ELSE <<(IF off < 0 THEN "-" ELSE "+")>>
            \o Pad((IF off < 0 THEN -off ELSE off) \div 60, 2) \o <<":">>
            \o Pad((IF off < 0 THEN -off ELSE off) % 60, 2)

\* t.Format(time.RFC3339)
FormatRFC3339(t) ==
    Pad(t.year, 4) \o <<"-">> \o Pad(t.month, 2) \o <<"-">> \o Pad(t.day, 2) \o <<"T">>
        \o Pad(t.hour, 2) \o <<":">> \o Pad(t.min, 2) \o <<":">> \o Pad(t.sec, 2)
        \o FormatZone(t.off)

\* ------------------------------------------------------------------------
\* Time arithmetic: Time.Add of whole minutes
\* ------------------------------------------------------------------------

\* the day before / after a date
PrevDay(t) ==
    IF t.day > 1 THEN [t EXCEPT !.day = t.day - 1]
    ELSE IF t.month > 1
    THEN [t EXCEPT !.month = t.month - 1, !.day = DaysIn(t.year, t.month - 1)]
    ELSE [t EXCEPT !.year = t.year - 1, !.month = 12, !.day = 31]

NextDay(t) ==
    IF t.day < DaysIn(t.year, t.month) THEN [t EXCEPT !.day = t.day + 1]
    ELSE IF t.month < 12 THEN [t EXCEPT !.month = t.month + 1, !.day = 1]
    ELSE [t EXCEPT !.year = t.year + 1, !.month = 1, !.day = 1]

\* mutant: the minutes wrap within the day, the date is left alone
AddMinutes_NoCarry(t, d) ==
    LET m == (t.hour * 60 + t.min + d + 1440) % 1440
    IN  [t EXCEPT !.hour = m \div 60, !.min = m % 60]

\* t.Add(d * time.Minute), for less than a day in either direction
AddMinutes(t, d) ==
    LET m == t.hour * 60 + t.min + d
        day == IF m < 0 THEN PrevDay(t) ELSE IF m >= 1440 THEN NextDay(t) ELSE t
        mm == (m + 1440) % 1440
    IN  [day EXCEPT !.hour = mm \div 60, !.min = mm % 60]

\* ------------------------------------------------------------------------
\* The log filter of a resource (SessionLogsFilter / BatchLogsFilter)
\* ------------------------------------------------------------------------

Quote == "\""

Backslash == "\\"

Newline == "\n"

\* the concatenation of the strings of a sequence, by halves
RECURSIVE Concat(_)
Concat(ss) ==
    IF Len(ss) = 0 THEN << >>
    ELSE IF Len(ss) = 1 THEN ss[1]
    ELSE LET h == Len(ss) \div 2
         IN  Concat(SubSeq(ss, 1, h)) \o Concat(SubSeq(ss, h + 1, Len(ss)))

\* strings.Join(parts, sep)
RECURSIVE Join(_, _)
Join(parts, sep) ==
    IF Len(parts) = 0 THEN << >>
    ELSE IF Len(parts) = 1 THEN parts[1]
    ELSE parts[1] \o sep \o Join(Tail(parts), sep)

\* mutant: the value is interpolated as it is
EscapeQuotes_None(v) == v

\* every double quote of the value prefixed by a backslash
RECURSIVE EscapeQuotes(_)
EscapeQuotes(v) ==
    IF v = << >> THEN << >>
    ELSE (IF Head(v) = Quote THEN <<Backslash, Quote>> ELSE <<Head(v)>>) \o EscapeQuotes(Tail(v))

\* one clause field="value", the value escaped and quoted
Clause(field, v) == field \o <<Quote>> \o EscapeQuotes(v) \o <<Quote>>

\* the padding of the window, in minutes
StartPadMinutes == 1

EndPadMinutes == 10

ResourceTypeOf(kind) ==
    IF kind = "batch" THEN <<"c","l","o","u","d","_","d","a","t","a","p","r","o","c","_","b","a","t","c","h">> ELSE <<"c","l","o","u","d","_","d","a","t","a","p","r","o","c","_","s","e","s","s","i","o","n">>

IdLabelOf(kind) ==
    IF kind = "batch" THEN <<"r","e","s","o","u","r","c","e",".","l","a","b","e","l","s",".","b","a","t","c","h","_","i","d","=">> ELSE <<"r","e","s","o","u","r","c","e",".","l","a","b","e","l","s",".","s","e","s","s","i","o","n","_","i","d","=">>

\* the two timestamp clauses of a window
LowerClause(start) == <<"t","i","m","e","s","t","a","m","p",">","=">> \o <<Quote>> \o FormatRFC3339(AddMinutes(start, 0 - StartPadMinutes)) \o <<Quote>>

UpperClause(end) == <<"t","i","m","e","s","t","a","m","p","<","=">> \o <<Quote>> \o FormatRFC3339(AddMinutes(end, EndPadMinutes)) \o <<Quote>>

\* mutant: the session clauses in the order of the batch clauses
FilterClauses_BatchOrder(kind, project, location, id, start, end) ==
    << <<"r","e","s","o","u","r","c","e",".","t","y","p","e","=">> \o <<Quote>> \o ResourceTypeOf(kind) \o <<Quote>>,
       Clause(<<"r","e","s","o","u","r","c","e",".","l","a","b","e","l","s",".","p","r","o","j","e","c","t","_","i","d","=">>, project),
       Clause(<<"r","e","s","o","u","r","c","e",".","l","a","b","e","l","s",".","l","o","c","a","t","i","o","n","=">>, location),
       Clause(IdLabelOf(kind), id),
       LowerClause(start),
       UpperClause(end) >>

\* the six clauses of the filter of a resource, in their order
FilterClauses(kind, project, location, id, start, end) ==
    IF kind = "batch"
    THEN << <<"r","e","s","o","u","r","c","e",".","t","y","p","e","=">> \o <<Quote>> \o ResourceTypeOf(kind) \o <<Quote>>,
            Clause(<<"r","e","s","o","u","r","c","e",".","l","a","b","e","l","s",".","p","r","o","j","e","c","t","_","i","d","=">>, project),
            Clause(<<"r","e","s","o","u","r","c","e",".","l","a","b","e","l","s",".","l","o","c","a","t","i","o","n","=">>, location),
            Clause(IdLabelOf(kind), id),
            LowerClause(start),
            UpperClause(end) >>
    ELSE << <<"r","e","s","o","u","r","c","e",".","t","y","p","e","=">> \o <<Quote>> \o ResourceTypeOf(kind) \o <<Quote>>,
            Clause(IdLabelOf(kind), id),
            Clause(<<"r","e","s","o","u","r","c","e",".","l","a","b","e","l","s",".","p","r","o","j","e","c","t","_","i","d","=">>, project),
            Clause(<<"r","e","s","o","u","r","c","e",".","l","a","b","e","l","s",".","l","o","c","a","t","i","o","n","=">>, location),
            LowerClause(start),
            UpperClause(end) >>

\* BatchLogsFilter / SessionLogsFilter
LogsFilter(kind, project, location, id, start, end) ==
    Join(FilterClauses(kind, project, location, id, start, end), <<Newline>>)

\* ------------------------------------------------------------------------
\* URL query escaping (url.QueryEscape) and the console / logs URLs
\* ------------------------------------------------------------------------

\* the printable ASCII characters, from the blank (32) to the tilde (126); the
\* grave accent (96), which a string constant cannot hold, is held by a word
Printable == <<" ","!","\"","#","$","%","&","'","(",")","*","+",",","-",".","/","0","1","2","3","4","5","6","7","8","9",":",";","<","=",">","?","@","A","B","C","D","E","F","G","H","I","J","K","L","M","N","O","P","Q","R","S","T","U","V","W","X","Y","Z","[","\\","]","^","_","grave","a","b","c","d","e","f","g","h","i","j","k","l","m","n","o","p","q","r","s","t","u","v","w","x","y","z","{","|","}","~">>

\* the byte of a character
CodeOf(c) == IF c = Newline THEN 10 ELSE 31 + (CHOOSE i \in 1..Len(Printable) : Printable[i] = c)

HexDigits == <<"0","1","2","3","4","5","6","7","8","9","A","B","C","D","E","F">>

\* the characters a query component keeps: letters, digits, '-', '_', '.', '~'
Unreserved(c) ==
    \/ CodeOf(c) \in 48..57
    \/ CodeOf(c) \in 65..90
    \/ CodeOf(c) \in 97..122
    \/ c \in {"-", "_", ".", "~"}

EscapeChar(c) ==
    IF Unreserved(c) THEN <<c>>
    ELSE IF c = " " THEN <<"+">>
    ELSE <<"%", HexDigits[(CodeOf(c) \div 16) + 1], HexDigits[(CodeOf(c) % 16) + 1]>>

\* mutant: the plus sign is left as it is
QueryEscape_PlusKept(v) ==
    Concat([i \in 1..Len(v) |-> IF v[i] = "+" THEN <<"+">> ELSE EscapeChar(v[i])])

\* url.QueryEscape(v)
QueryEscape(v) == Concat([i \in 1..Len(v) |-> EscapeChar(v[i])])

ConsoleHost == <<"h","t","t","p","s",":","/","/","c","o","n","s","o","l","e",".","c","l","o","u","d",".","g","o","o","g","l","e",".","c","o","m">>

\* mutant: the id before the location
ConsoleURL_Swapped(kind, project, location, id) ==
    ConsoleHost
        \o (IF kind = "batch" THEN <<"/","d","a","t","a","p","r","o","c","/","b","a","t","c","h","e","s","/">> ELSE <<"/","d","a","t","a","p","r","o","c","/","i","n","t","e","r","a","c","t","i","v","e","/">>)
        \o id \o <<"/">> \o location
        \o (IF kind = "batch" THEN <<"/","s","u","m","m","a","r","y">> ELSE <<"/","d","e","t","a","i","l","s">>)
        \o <<"?","p","r","o","j","e","c","t","=">> \o project

\* BatchConsoleURL / SessionConsoleURL
ConsoleURL(kind, project, location, id) ==
    ConsoleHost
        \o (IF kind = "batch" THEN <<"/","d","a","t","a","p","r","o","c","/","b","a","t","c","h","e","s","/">> ELSE <<"/","d","a","t","a","p","r","o","c","/","i","n","t","e","r","a","c","t","i","v","e","/">>)
        \o location \o <<"/">> \o id
        \o (IF kind = "batch" THEN <<"/","s","u","m","m","a","r","y">> ELSE <<"/","d","e","t","a","i","l","s">>)
        \o <<"?","p","r","o","j","e","c","t","=">> \o project

\* the resource parameter of a batch logs URL
BatchResource(id) == <<"c","l","o","u","d","_","d","a","t","a","p","r","o","c","_","b","a","t","c","h","/","b","a","t","c","h","_","i","d","/">> \o id

\* mutant: the resource parameter on the session URL too
LogsURLParams_ResourceAlways(kind, project, location, id, start, end) ==
    << <<<<"a","d","v","a","n","c","e","d","F","i","l","t","e","r">>, LogsFilter(kind, project, location, id, start, end)>>,
       <<<<"p","r","o","j","e","c","t">>, project>>,
       <<<<"r","e","s","o","u","r","c","e">>, BatchResource(id)>> >>

\* the query parameters of a logs URL, in their order: name and value
LogsURLParams(kind, project, location, id, start, end) ==
    << <<<<"a","d","v","a","n","c","e","d","F","i","l","t","e","r">>, LogsFilter(kind, project, location, id, start, end)>>,
       <<<<"p","r","o","j","e","c","t">>, project>> >>
    \o (IF kind = "batch" THEN << <<<<"r","e","s","o","u","r","c","e">>, BatchResource(id)>> >> ELSE << >>)

\* name=value of the parameters, the values escaped, joined by '&'
EncodeParams(ps) ==
    Join([i \in 1..Len(ps) |-> ps[i][1] \o <<"=">> \o QueryEscape(ps[i][2])], <<"&">>)

\* BatchLogsURL / SessionLogsURL
LogsURL(kind, project, location, id, start, end) ==
    ConsoleHost \o <<"/","l","o","g","s","/","v","i","e","w","e","r","?">>
        \o EncodeParams(LogsURLParams(kind, project, location, id, start, end))

\* ------------------------------------------------------------------------
\* Resource names (ExtractBatchDetails / ExtractSessionDetails)
\* ------------------------------------------------------------------------

\* strings.Split(s, sep) for a one-character separator
RECURSIVE Split(_, _)
Split(s, sep) ==
    IF ~Contains(s, sep) THEN <<s>>
    ELSE LET i == CHOOSE j \in 1..Len(s) : s[j] = sep /\ \A k \in 1..(j - 1) : s[k] # sep
         IN  <<SubSeq(s, 1, i - 1)>> \o Split(SubSeq(s, i + 1, Len(s)), sep)

CollectionOf(kind) == IF kind = "batch" THEN <<"b","a","t","c","h","e","s">> ELSE <<"s","e","s","s","i","o","n","s">>

ParseErrorText(kind) == IF kind = "batch" THEN <<"f","a","i","l","e","d"," ","t","o"," ","p","a","r","s","e"," ","b","a","t","c","h"," ","n","a","m","e",":"," ">> ELSE <<"f","a","i","l","e","d"," ","t","o"," ","p","a","r","s","e"," ","s","e","s","s","i","o","n"," ","n","a","m","e",":"," ">>

\* mutant: either collection marker is accepted
NameMatches_AnyMarker(kind, segs) ==
    /\ Len(segs) = 6
    /\ segs[1] = <<"p","r","o","j","e","c","t","s">>
    /\ segs[3] = <<"l","o","c","a","t","i","o","n","s">>
    /\ segs[5] \in {<<"b","a","t","c","h","e","s">>, <<"s","e","s","s","i","o","n","s">>}

\* the name has the six segments projects/P/locations/L/<collection>/id
NameMatches(kind, segs) ==
    /\ Len(segs) = 6
    /\ segs[1] = <<"p","r","o","j","e","c","t","s">>
    /\ segs[3] = <<"l","o","c","a","t","i","o","n","s">>
    /\ segs[5] = CollectionOf(kind)

\* ExtractBatchDetails / ExtractSessionDetails: the three parts, or the error
ExtractDetails(kind, name) ==
    LET segs == Split(name, "/")
    IN  IF NameMatches(kind, segs)
        THEN [ok |-> TRUE, project |-> segs[2], location |-> segs[4], id |-> segs[6],
              err |-> EmptyStr]
        ELSE [ok |-> FALSE, project |-> EmptyStr, location |-> EmptyStr, id |-> EmptyStr,
              err |-> ParseErrorText(kind) \o name]

\* ------------------------------------------------------------------------
\* Values of the model
\* ------------------------------------------------------------------------

\* v, ok := m[key].(string): the asserted value (the zero value when !ok) and ok
Some(v) == [ok |-> TRUE, v |-> v]

NoStr == [ok |-> FALSE, v |-> EmptyStr]

NoInt == [ok |-> FALSE, v |-> 0]

\* 2025-10-01T05:00:00Z and 2025-10-01T06:00:00Z, the window of the tests
T0500 == <<"2","0","2","5","-","1","0","-","0","1","T","0","5",":","0","0",":","0","0","Z">>

T0600 == <<"2","0","2","5","-","1","0","-","0","1","T","0","6",":","0","0",":","0","0","Z">>

\* a creation time and a state time, as the metadata lookup renders them
T0400 == <<"2","0","2","5","-","1","0","-","0","1","T","0","4",":","0","0",":","0","0","Z">>

T0700 == <<"2","0","2","5","-","1","0","-","0","1","T","0","7",":","3","0",":","0","0","+","0","1",":","0","0">>

\* strings that are not RFC3339: a date with a blank for the T, and a word
BadTime == <<"2","0","2","5","-","1","0","-","0","1"," ","0","5",":","0","0",":","0","0","Z">>

BadWord == <<"n","o","w">>

\* the instants the wall clock (time.Now) can show
NowSet == {[year |-> 2025, month |-> 10, day |-> 2, hour |-> 9, min |-> 15, sec |-> 30, off |-> 0]}

\* a short id, and an id that is a path
GoodId == <<"s","1">>

SlashId == <<"a","/","b">>

\* caller filter fragments
UserFilter == <<"s","e","v","e","r","i","t","y",">","=","E","R","R","O","R">>

ToolKinds == {"batch", "session"}

\* the error values the operations return
\* (kind: the failure; field: the parameter it names; wraps: the error it wraps;
\*  by: "tool" for an error made by Tool.Invoke or ParseQueryLogsParams, "source" for
\*  one made by the source's fetch)
NoError == [kind |-> "nil", field |-> "", wraps |-> "nil", by |-> ""]

Err(kind, field, wraps, by) == [kind |-> kind, field |-> field, wraps |-> wraps, by |-> by]

\* ------------------------------------------------------------------------
\* Log records of the backend (logging.Entry)
\* ------------------------------------------------------------------------

Absent == [ok |-> FALSE]

EntryTime(h) == [year |-> 2025, month |-> 10, day |-> 1, hour |-> h, min |-> 5, sec |-> 7, off |-> 0]

\* a record that carries none of the optional fields
RecBare ==
    [LogName |-> "projects/p/logs/dataproc.googleapis.com%2Foutput",
     Timestamp |-> EntryTime(5), Severity |-> 200,
     Resource |-> [Type |-> "cloud_dataproc_session", Labels |-> [session_id |-> "s1"]],
     Payload |-> Absent, InsertID |-> "", Labels |-> << >>, HTTPRequest |-> Absent,
     Trace |-> "", SpanID |-> "", Operation |-> Absent, SourceLocation |-> Absent]

\* a record that carries every optional field
RecFull ==
    [LogName |-> "projects/p/logs/dataproc.googleapis.com%2Fdriver",
     Timestamp |-> EntryTime(6), Severity |-> 500,
     Resource |-> [Type |-> "cloud_dataproc_session", Labels |-> [session_id |-> "s1"]],
     Payload |-> [ok |-> TRUE, v |-> "job failed"],
     InsertID |-> "id-1", Labels |-> [component |-> "driver"],
     HTTPRequest |-> [ok |-> TRUE, Status |-> 500, Latency |-> "1.5s", RemoteIP |-> "10.0.0.1",
                      Request |-> [ok |-> TRUE, Method |-> "GET", URL |-> "http://h/x", UserAgent |-> "ua"]],
     Trace |-> "trace-1", SpanID |-> "span-1",
     Operation |-> [ok |-> TRUE, Id |-> "op-1", Producer |-> "spark", First |-> TRUE, Last |-> FALSE],
     SourceLocation |-> [ok |-> TRUE, File |-> "a.go", Line |-> 7, Function |-> "main"]]

LogRecords == {RecBare, RecFull}

\* every log sequence of at most n records, oldest first
RECURSIVE SeqsUpTo(_, _)
SeqsUpTo(S, n) ==
    IF n = 0 THEN {<< >>}
    ELSE SeqsUpTo(S, n - 1) \cup
         {Append(q, x) : q \in {r \in SeqsUpTo(S, n - 1) : Len(r) = n - 1}, x \in S}

Stores == SeqsUpTo(LogRecords, MaxLogs)

Reverse(q) == [i \in 1..Len(q) |-> q[Len(q) + 1 - i]]

\* Severity.String()
SeverityString(sev) ==
    CASE sev = 0 -> "Default" [] sev = 100 -> "Debug" [] sev = 200 -> "Info"
      [] sev = 300 -> "Notice" [] sev = 400 -> "Warning" [] sev = 500 -> "Error"
      [] sev = 600 -> "Critical" [] sev = 700 -> "Alert" [] sev = 800 -> "Emergency"
      [] OTHER -> "Unknown"

\* m with key k set to v when cond holds
PutIf(cond, m, k, v) == IF cond THEN (k :> v) @@ m ELSE m

HTTPRequestMap(h) ==
    IF h.Request.ok
    THEN [status |-> h.Status, latency |-> h.Latency, remoteIp |-> h.RemoteIP,
          requestMethod |-> h.Request.Method, requestUrl |-> h.Request.URL,
          userAgent |-> h.Request.UserAgent]
    ELSE [status |-> h.Status, latency |-> h.Latency, remoteIp |-> h.RemoteIP]

\* the verbose keys added to an entry
VerboseFields(entry) ==
    LET m1 == [insertId |-> entry.InsertID]
        m2 == PutIf(Cardinality(DOMAIN entry.Labels) > 0, m1, "labels", entry.Labels)
        m3 == PutIf(entry.HTTPRequest.ok, m2, "httpRequest",
                    IF entry.HTTPRequest.ok THEN HTTPRequestMap(entry.HTTPRequest) ELSE << >>)
        m4 == PutIf(entry.Trace # "", m3, "trace", entry.Trace)
        m5 == PutIf(entry.SpanID # "", m4, "spanId", entry.SpanID)
        m6 == PutIf(entry.Operation.ok, m5, "operation",
                    IF entry.Operation.ok
                    THEN [id |-> entry.Operation.Id, producer |-> entry.Operation.Producer,
                          first |-> entry.Operation.First, last |-> entry.Operation.Last]
                    ELSE << >>)
    IN  PutIf(entry.SourceLocation.ok, m6, "sourceLocation",
              IF entry.SourceLocation.ok
              THEN [file |-> entry.SourceLocation.File, line |-> entry.SourceLocation.Line,
                    function |-> entry.SourceLocation.Function]
              ELSE << >>)

\* mutant: the verbose keys are added whatever the flag
Project_AlwaysVerbose(entry, verbose) ==
    LET base == [logName |-> entry.LogName,
                 timestamp |-> FormatRFC3339(entry.Timestamp),
                 severity |-> SeverityString(entry.Severity),
                 resource |-> [type |-> entry.Resource.Type, labels |-> entry.Resource.Labels]]
        withPayload == PutIf(entry.Payload.ok, base, "payload",
                             IF entry.Payload.ok THEN entry.Payload.v ELSE "")
    IN  VerboseFields(entry) @@ withPayload

\* the map built for one record in the body of the fetch loop
Project(entry, verbose) ==
    LET base == [logName |-> entry.LogName,
                 timestamp |-> FormatRFC3339(entry.Timestamp),
                 severity |-> SeverityString(entry.Severity),
                 resource |-> [type |-> entry.Resource.Type, labels |-> entry.Resource.Labels]]
        withPayload == PutIf(entry.Payload.ok, base, "payload",
                             IF entry.Payload.ok THEN entry.Payload.v ELSE "")
    IN  IF verbose THEN VerboseFields(entry) @@ withPayload ELSE withPayload

\* ------------------------------------------------------------------------
\* State
\* ------------------------------------------------------------------------

VARIABLES
    pc,          \* position of the invocation: idle, lookup, query, loop, done
    entry,       \* how the run was entered: "none", "invoke" (Tool.Invoke) or "direct"
    tool,        \* "batch" or "session": the tool invoked
    params,      \* paramMap of the invocation, as the caller sent it
    qp,          \* queryParams / QueryLogsParams under construction
    query,       \* what was passed to LogAdminClient.Entries
    meta,        \* the response of the metadata lookup (batchData / sessionData)
    nowRead,     \* whether time.Now was read, and its value
    store,       \* the log records the backend holds for the query, oldest first
    it,          \* the iterator returned by LogAdminClient.Entries
    results,     \* the result buffer of the fetch loop
    ret,         \* the value returned to the caller: entries and error
    metaCalls,   \* GetBatch / GetSession calls issued
    logQueries,  \* LogAdminClient.Entries calls issued
    pulls,       \* it.Next calls made
    pulledOk,    \* it.Next calls that returned a record
    iterErr,     \* an it.Next call returned an error other than iterator.Done
    fx,          \* a call of a filter / URL / name function: its arguments and its result
    ctx,         \* the caller's context: cancelled or not, and what the iterator still holds
    calls,       \* two invocations of the fetch at once: arguments, locals and returns
    lookupName   \* the resource name of the metadata request: empty when none was made

vars == <<pc, entry, tool, params, qp, query, meta, nowRead, store, it, results, ret,
          metaCalls, logQueries, pulls, pulledOk, iterErr, fx, ctx, calls, lookupName>>

\* the default of the limit parameter
DefaultLimit == 20

\* the zero QueryLogsParams
ZeroParams ==
    [ID |-> EmptyStr, Filter |-> EmptyStr, NewestFirst |-> FALSE,
     StartTime |-> EmptyStr, EndTime |-> EmptyStr, Verbose |-> FALSE, Limit |-> 0]

NoMeta == [kind |-> "none", createTime |-> NoStr, state |-> "", stateTime |-> NoStr]

NoReturn == [entries |-> << >>, err |-> NoError]

NoQuery ==
    [issued |-> FALSE, start |-> ZeroTime, end |-> ZeroTime, extra |-> EmptyStr,
     newestFirst |-> FALSE, filter |-> EmptyStr]

NoIter == [seq |-> << >>, pos |-> 0]

\* the caller inputs of a tool invocation
Requests ==
    [id : {NoStr, Some(GoodId), Some(SlashId)},
     startTime : {NoStr, Some(T0500), Some(BadTime)},
     endTime : {NoStr, Some(T0600), Some(BadWord)},
     limit : {NoInt} \cup {[ok |-> TRUE, v |-> n] : n \in (0 - 1)..MaxLimit},
     newestFirst : BOOLEAN,
     verbose : BOOLEAN,
     filter : {NoStr, Some(UserFilter)}]
    \cup
    [id : {Some(EmptyStr)}, startTime : {NoStr}, endTime : {NoStr, Some(T0600)},
     limit : {NoInt}, newestFirst : {FALSE}, verbose : {FALSE}, filter : {NoStr}]

\* the responses of the metadata lookup (GetBatch / GetSession)
MetaStates == {"", "ACTIVE", "SUCCEEDED", "FAILED", "CANCELLED", "TERMINATED"}

MetaResponses ==
    {[kind |-> "error", createTime |-> NoStr, state |-> "", stateTime |-> NoStr],
     [kind |-> "badshape", createTime |-> NoStr, state |-> "", stateTime |-> NoStr]}
    \cup [kind : {"ok"},
          createTime : {NoStr, Some(T0400), Some(BadWord)},
          state : MetaStates,
          stateTime : {NoStr, Some(T0700), Some(BadTime)}]

\* the parameters of a direct call of the fetch
DirectParams ==
    [ID : {GoodId}, Filter : {EmptyStr, UserFilter}, NewestFirst : BOOLEAN,
     StartTime : {EmptyStr, T0500}, EndTime : {T0600, BadWord},
     Verbose : BOOLEAN, Limit : 0..(MaxLimit + 1)]

\* the log sequences of the runs that start at a tool invocation
InvokeStores ==
    {q \in Stores : /\ Len(q) = MaxLogs
                    /\ \A i \in 1..Len(q) : q[i] = (IF i % 2 = 1 THEN RecFull ELSE RecBare)}

\* a context that is not cancelled
NoCtx == [cancelled |-> FALSE, buffered |-> 0, at |-> 0]

\* the two invocations of a source
Invocations == 1..2

\* the locals of an invocation that has not started
NoFrame == [pc |-> "idle", tool |-> "none", qp |-> ZeroParams, query |-> NoQuery, it |-> NoIter]

NoArgs == [tool |-> "none", q |-> ZeroParams, resp |-> << >>, failAt |-> 0 - 1]

\* no invocation has started
NoCalls ==
    [args |-> [i \in Invocations |-> NoArgs],
     frame |-> [i \in Invocations |-> NoFrame],
     results |-> [i \in Invocations |-> << >>],
     got |-> [i \in Invocations |-> NoReturn],
     overlapped |-> FALSE]

InitWith(stores) ==
    /\ pc = "idle"
    /\ entry = "none"
    /\ tool = "none"
    /\ params = [id |-> NoStr, startTime |-> NoStr, endTime |-> NoStr, limit |-> NoInt,
                 newestFirst |-> FALSE, verbose |-> FALSE, filter |-> NoStr]
    /\ qp = ZeroParams
    /\ query = NoQuery
    /\ meta = NoMeta
    /\ nowRead = [ok |-> FALSE, v |-> EmptyStr]
    /\ store \in stores
    /\ it = NoIter
    /\ results = << >>
    /\ ret = NoReturn
    /\ metaCalls = 0
    /\ logQueries = 0
    /\ pulls = 0
    /\ pulledOk = 0
    /\ iterErr = FALSE
    /\ ctx = NoCtx
    /\ calls = NoCalls
    /\ lookupName = EmptyStr

NoCall ==
    [op |-> "none", kind |-> "batch", project |-> EmptyStr, location |-> EmptyStr,
     id |-> EmptyStr, start |-> ZeroTime, end |-> ZeroTime, name |-> EmptyStr,
     out |-> EmptyStr,
     parsed |-> [ok |-> FALSE, project |-> EmptyStr, location |-> EmptyStr,
                 id |-> EmptyStr, err |-> EmptyStr]]

Init == InitWith(InvokeStores) /\ fx = NoCall

InitFetch == InitWith(Stores) /\ fx = NoCall

\* ------------------------------------------------------------------------
\* Tool.Invoke up to its first backend call
\* ------------------------------------------------------------------------

\* the checks of the id parameter: the error, or NoError
IdParam(tl) == IF tl = "batch" THEN "batch_id" ELSE "session_id"

\* mutant: an id with '/' in it is accepted
CheckId_SlashAccepted(tl, id) ==
    IF ~id.ok THEN Err("MissingParameter", IdParam(tl), "nil", "tool") ELSE NoError

CheckId(tl, id) ==
    IF ~id.ok THEN Err("MissingParameter", IdParam(tl), "nil", "tool")
    ELSE IF Contains(id.v, "/") THEN Err("NotShortName", IdParam(tl), "nil", "tool")
    ELSE NoError

\* mutant: a limit of zero is taken as it is
EffectiveLimit_ZeroKept(l) == IF l.ok /\ l.v >= 0 THEN l.v ELSE DefaultLimit

\* limit := 20; if val, ok := paramMap["limit"].(int); ok && val > 0 { limit = val }
EffectiveLimit(l) == IF l.ok /\ l.v > 0 THEN l.v ELSE DefaultLimit

\* the query parameters read from paramMap
ReadParams(p) ==
    [ID |-> p.id.v, Filter |-> p.filter.v, NewestFirst |-> p.newestFirst,
     StartTime |-> p.startTime.v, EndTime |-> p.endTime.v, Verbose |-> p.verbose,
     Limit |-> EffectiveLimit(p.limit)]

\* the validation of the two bounds: startTime first, then endTime; empty bounds are skipped
ValidateTimes(q, by) ==
    IF q.StartTime # EmptyStr /\ ~ParseRFC3339(q.StartTime).ok
    THEN Err("InvalidTimeFormat", "startTime", "parse", by)
    ELSE IF q.EndTime # EmptyStr /\ ~ParseRFC3339(q.EndTime).ok
    THEN Err("InvalidTimeFormat", "endTime", "parse", by)
    ELSE NoError

\* ss.ParseQueryLogsParams(params): the parameters, and the error of a supplied bound
ParseQueryLogsParams(p) == [q |-> ReadParams(p), err |-> ValidateTimes(ReadParams(p), "tool")]

\* mutant: the lookup is made only when both bounds are missing
NeedsLookup_Both(q) == q.StartTime = EmptyStr /\ q.EndTime = EmptyStr

\* if queryParams.StartTime == "" || queryParams.EndTime == ""
NeedsLookup(q) == q.StartTime = EmptyStr \/ q.EndTime = EmptyStr

Return(entries, err) ==
    /\ pc' = "done"
    /\ ret' = [entries |-> entries, err |-> err]

\* the project and location of the source configuration
SrcProject == <<"p","1">>

SrcLocation == <<"u","s">>

\* the Name of the GetBatchRequest / GetSessionRequest
LookupName(tl, id) ==
    <<"p","r","o","j","e","c","t","s","/">> \o SrcProject
        \o <<"/","l","o","c","a","t","i","o","n","s","/">> \o SrcLocation
        \o <<"/">> \o CollectionOf(tl) \o <<"/">> \o id

\* the early error of an invocation, before any backend call: NoError when there is none
EarlyError(tl, p) ==
    IF CheckId(tl, p.id) # NoError THEN CheckId(tl, p.id)
    ELSE IF tl = "batch" THEN ParseQueryLogsParams(p).err
    ELSE IF ~NeedsLookup(ReadParams(p)) THEN ValidateTimes(ReadParams(p), "tool")
    ELSE NoError

InvokeBegin(tl, p) ==
    /\ UNCHANGED <<fx, ctx, calls>>
    /\ pc = "idle"
    /\ entry' = "invoke"
    /\ tool' = tl
    /\ params' = p
    /\ IF EarlyError(tl, p) # NoError
       THEN /\ Return(<< >>, EarlyError(tl, p))
            /\ UNCHANGED <<qp, metaCalls, lookupName>>
       ELSE /\ qp' = ReadParams(p)
            /\ ret' = ret
            /\ IF NeedsLookup(ReadParams(p))
               THEN /\ pc' = "lookup"
                    /\ metaCalls' = metaCalls + 1
                    /\ lookupName' = LookupName(tl, p.id.v)
               ELSE /\ pc' = "query"
                    /\ metaCalls' = metaCalls
                    /\ lookupName' = lookupName
    /\ UNCHANGED <<query, meta, nowRead, store, it, results, logQueries, pulls, pulledOk, iterErr>>

\* ------------------------------------------------------------------------
\* Window resolution, once the metadata lookup has returned
\* ------------------------------------------------------------------------

\* mutant: the session tool uses the terminal states of the batch tool
TerminalStates_BatchOnly(tl) == {"SUCCEEDED", "FAILED", "CANCELLED"}

\* terminalStates of the tool
TerminalStates(tl) ==
    IF tl = "batch" THEN {"SUCCEEDED", "FAILED", "CANCELLED"}
    ELSE {"SUCCEEDED", "FAILED", "CANCELLED", "TERMINATED"}

\* mutant: the creation time overwrites the start the caller supplied
ResolveStart_Overwrite(start, resp) == IF resp.createTime.ok THEN resp.createTime.v ELSE start

\* the start bound after the block `if startTimeStr == ""`
ResolveStart(start, resp) ==
    IF start = EmptyStr
    THEN (IF resp.createTime.ok THEN resp.createTime.v ELSE start)
    ELSE start

\* the end bound after `if terminalStates[state]`, before the fallback to time.Now
EndFromState(tl, resp) ==
    IF resp.state \in TerminalStates(tl) /\ resp.stateTime.ok THEN resp.stateTime.v ELSE EmptyStr

\* whether the block `if endTimeStr == ""` reads time.Now
ReadsNow(tl, end, resp) == end = EmptyStr /\ EndFromState(tl, resp) = EmptyStr

\* the end bound after the block `if endTimeStr == ""`
ResolveEnd(tl, end, resp, now) ==
    IF end # EmptyStr THEN end
    ELSE IF EndFromState(tl, resp) = EmptyStr THEN FormatRFC3339(now)
    ELSE EndFromState(tl, resp)

\* mutant: the session tool does not parse the bounds after the resolution
PostValidate_None(tl, q) == NoError

\* the validation that follows the resolution: the session tool parses both bounds,
\* the batch tool has none
PostValidate(tl, q) == IF tl = "session" THEN ValidateTimes(q, "tool") ELSE NoError

\* mutant: the lookup error is replaced by a new error that does not wrap it
OnLookupError_Unwrapped == [entries |-> << >>, err |-> Err("MetadataFetchFailed", "", "nil", "tool")]

\* what Invoke returns when the lookup fails: nil, and the lookup error wrapped
\* ("failed to get ... details to determine time range: %w")
OnLookupError == [entries |-> << >>, err |-> Err("MetadataFetchFailed", "", "backend", "tool")]

MetadataReturns(resp, now) ==
    /\ UNCHANGED <<fx, ctx, calls, lookupName>>
    /\ pc = "lookup"
    /\ meta' = resp
    /\ IF resp.kind = "error"
       THEN /\ Return(OnLookupError.entries, OnLookupError.err)
            /\ UNCHANGED <<qp, nowRead>>
       ELSE IF resp.kind = "badshape"
       THEN /\ Return(<< >>, Err("UnexpectedFormat", "", "nil", "tool"))
            /\ UNCHANGED <<qp, nowRead>>
       ELSE LET q1 == [qp EXCEPT !.StartTime = ResolveStart(qp.StartTime, resp),
                                 !.EndTime = ResolveEnd(tool, qp.EndTime, resp, now)]
            IN  /\ qp' = q1
                /\ nowRead' = IF ReadsNow(tool, qp.EndTime, resp)
                              THEN [ok |-> TRUE, v |-> FormatRFC3339(now)]
                              ELSE nowRead
                /\ IF PostValidate(tool, q1) # NoError
                   THEN Return(<< >>, PostValidate(tool, q1))
                   ELSE pc' = "query" /\ ret' = ret
    /\ UNCHANGED <<entry, tool, params, query, store, it, results, metaCalls, logQueries,
                   pulls, pulledOk, iterErr>>

\* ------------------------------------------------------------------------
\* The log fetch: Source.GetSessionLogs / GetBatchLogs
\* ------------------------------------------------------------------------

\* a direct call of the fetch with parameters q
DirectCall(tl, q) ==
    /\ UNCHANGED <<fx, ctx, calls, lookupName>>
    /\ pc = "idle"
    /\ entry' = "direct"
    /\ tool' = tl
    /\ qp' = q
    /\ pc' = "query"
    /\ UNCHANGED <<params, query, meta, nowRead, store, it, results, ret, metaCalls,
                   logQueries, pulls, pulledOk, iterErr>>

\* the time a bound of the parameters stands for: the zero time when it is empty
BoundTime(b) == IF b = EmptyStr THEN ZeroTime ELSE ParseRFC3339(b).t

\* mutant: the NewestFirst option is never passed
EntriesOrder_Ignored(q, newestFirst) == q

\* mutant: the caller's fragment is appended even when it is empty
CombinedFilter_Always(resourceFilter, extra) == Join(<<resourceFilter, extra>>, <<Newline>>)

\* filterParts joined: the resource filter, then the caller's fragment when not empty
CombinedFilter(resourceFilter, extra) ==
    IF extra # EmptyStr
    THEN Join(<<resourceFilter, extra>>, <<Newline>>)
    ELSE Join(<<resourceFilter>>, <<Newline>>)

\* the sequence the backend serves for the ordering option
EntriesOrder(q, newestFirst) == IF newestFirst THEN Reverse(q) ELSE q

\* what is passed to LogAdminClient.Entries: the window, the filter and the order
EntriesQuery(tl, q) ==
    [issued |-> TRUE, start |-> BoundTime(q.StartTime),
     end |-> BoundTime(q.EndTime), extra |-> q.Filter,
     newestFirst |-> q.NewestFirst,
     filter |-> CombinedFilter(
                    LogsFilter(tl, SrcProject, SrcLocation, q.ID,
                               BoundTime(q.StartTime), BoundTime(q.EndTime)),
                    q.Filter)]

\* the head of the fetch: parse the bounds, build the filter, open the iterator
\* (GetBatchLogs is taken to have the body of GetSessionLogs, with the batch filter)
GetLogsBegin ==
    /\ UNCHANGED <<fx, ctx, calls, lookupName>>
    /\ pc = "query"
    /\ IF ValidateTimes(qp, "source") # NoError
       THEN /\ Return(<< >>, ValidateTimes(qp, "source"))
            /\ UNCHANGED <<query, it, logQueries>>
       ELSE /\ query' = EntriesQuery(tool, qp)
            /\ it' = [seq |-> EntriesOrder(store, qp.NewestFirst), pos |-> 0]
            /\ logQueries' = logQueries + 1
            /\ pc' = "loop"
            /\ ret' = ret
    /\ results' = << >>
    /\ UNCHANGED <<entry, tool, params, qp, meta, nowRead, store, metaCalls, pulls,
                   pulledOk, iterErr>>

\* mutant: the whole sequence is collected, to be cut to the limit afterwards
LoopContinues_CollectAll(res, limit) == TRUE

\* mutant: the loop runs while len(results) <= params.Limit
LoopContinues_OffByOne(res, limit) == Len(res) <= limit

\* for len(results) < params.Limit
LoopContinues(res, limit) == Len(res) < limit

\* mutant: the iteration error is taken for the end of the sequence
OnIterError_Swallowed(res) == [entries |-> res, err |-> NoError]

\* mutant: the buffer is returned along with the error
OnIterError_Partial(res) == [entries |-> res, err |-> Err("LogFetchFailed", "", "backend", "source")]

\* what the fetch returns when it.Next fails: no entries, and the wrapped error
OnIterError(res) == [entries |-> << >>, err |-> Err("LogFetchFailed", "", "backend", "source")]

\* it.Next returns the next record: it is projected and appended
PullEntry ==
    /\ UNCHANGED <<fx, calls, lookupName>>
    /\ pc = "loop"
    /\ LoopContinues(results, qp.Limit)
    /\ it.pos < Len(it.seq)
    /\ ctx.cancelled => ctx.buffered > 0
    /\ ctx' = IF ctx.cancelled THEN [ctx EXCEPT !.buffered = ctx.buffered - 1] ELSE ctx
    /\ it' = [it EXCEPT !.pos = it.pos + 1]
    /\ results' = Append(results, Project(it.seq[it.pos + 1], qp.Verbose))
    /\ pulls' = pulls + 1
    /\ pulledOk' = pulledOk + 1
    /\ UNCHANGED <<pc, entry, tool, params, qp, query, meta, nowRead, store, ret, metaCalls,
                   logQueries, iterErr>>

\* it.Next returns iterator.Done: break, and return the buffer
PullDone ==
    /\ UNCHANGED <<fx, ctx, calls, lookupName>>
    /\ pc = "loop"
    /\ LoopContinues(results, qp.Limit)
    /\ it.pos = Len(it.seq)
    /\ pulls' = pulls + 1
    /\ Return(results, NoError)
    /\ UNCHANGED <<entry, tool, params, qp, query, meta, nowRead, store, it, results,
                   metaCalls, logQueries, pulledOk, iterErr>>

\* mutant: the loop goes on after an iteration error
AfterIterError_Retry == "loop"

\* where the fetch stands after an iteration error: it has returned
AfterIterError == "done"

\* it.Next returns another error: the fetch returns it wrapped
PullError ==
    /\ UNCHANGED <<fx, ctx, calls, lookupName>>
    /\ pc = "loop"
    /\ LoopContinues(results, qp.Limit)
    /\ pulls' = pulls + 1
    /\ iterErr' = TRUE
    /\ pc' = AfterIterError
    /\ ret' = OnIterError(results)
    /\ UNCHANGED <<entry, tool, params, qp, query, meta, nowRead, store, it, results,
                   metaCalls, logQueries, pulledOk>>

\* the caller cancels the context while the loop runs: the iterator holds b records
\* of the page it fetched last, which it.Next hands out without a call to the
\* backend; a pull beyond them needs the backend and fails
Cancel(b) ==
    /\ pc = "loop"
    /\ ~ctx.cancelled
    /\ b \in 0..(Len(it.seq) - it.pos)
    /\ ctx' = [cancelled |-> TRUE, buffered |-> b, at |-> Len(results)]
    /\ UNCHANGED <<pc, entry, tool, params, qp, query, meta, nowRead, store, it, results,
                   ret, metaCalls, logQueries, pulls, pulledOk, iterErr, fx, calls, lookupName>>

\* mutant: the fetch does not return once the loop condition fails
LoopExit_Spin ==
    /\ pc = "loop"
    /\ ~LoopContinues(results, qp.Limit)
    /\ UNCHANGED vars

\* the loop condition fails: return the buffer
LoopExit ==
    /\ UNCHANGED <<fx, ctx, calls, lookupName>>
    /\ pc = "loop"
    /\ ~LoopContinues(results, qp.Limit)
    /\ Return(results, NoError)
    /\ UNCHANGED <<entry, tool, params, qp, query, meta, nowRead, store, it, results,
                   metaCalls, logQueries, pulls, pulledOk, iterErr>>

\* ------------------------------------------------------------------------
\* Specifications
\* ------------------------------------------------------------------------

\* a tool invocation, from Tool.Invoke to its return
Next ==
    \/ \E tl \in ToolKinds, p \in Requests : InvokeBegin(tl, p)
    \/ \E resp \in MetaResponses, now \in NowSet : MetadataReturns(resp, now)
    \/ GetLogsBegin
    \/ PullEntry
    \/ PullDone
    \/ PullError
    \/ LoopExit

Spec == Init /\ [][Next]_vars

\* the fetch called directly with bounded parameters
NextFetch ==
    \/ \E tl \in ToolKinds, q \in DirectParams : DirectCall(tl, q)
    \/ GetLogsBegin
    \/ PullEntry
    \/ PullDone
    \/ PullError
    \/ LoopExit

SpecFetch == InitFetch /\ [][NextFetch]_vars

\* one step of the loop: a call of it.Next with its outcome, or the return
LoopStep == PullEntry \/ PullDone \/ PullError \/ LoopExit

\* the fetch called directly, the sequential code going on as long as it can:
\* each it.Next call returns
SpecFetchLive == InitFetch /\ [][NextFetch]_vars /\ WF_vars(LoopStep)

\* the fetch called directly, with a caller that may cancel its context
NextCancel ==
    \/ \E tl \in ToolKinds, q \in DirectParams : DirectCall(tl, q)
    \/ GetLogsBegin
    \/ \E b \in 0..MaxLogs : Cancel(b)
    \/ PullEntry
    \/ PullDone
    \/ PullError
    \/ LoopExit

SpecCancel == InitFetch /\ [][NextCancel]_vars

\* ------------------------------------------------------------------------
\* Two invocations of the fetch against one source
\* ------------------------------------------------------------------------

\* the variables of the single invocation
OneCallVars ==
    <<pc, entry, tool, params, qp, query, meta, nowRead, store, it, results, ret,
      metaCalls, logQueries, pulls, pulledOk, iterErr, fx, ctx, lookupName>>

\* the records the backend serves to an invocation
TwoResponses ==
    {q \in Stores : /\ Len(q) \in {1, MaxLogs}
                    /\ \A i \in 1..Len(q) : q[i] = (IF i % 2 = 1 THEN RecFull ELSE RecBare)}

\* the calls two callers make: tool, parameters, the records the backend serves
\* and the pull at which the backend fails (-1: at none)
TwoArgs ==
    {[tool |-> "session",
      q |-> [ID |-> GoodId, Filter |-> EmptyStr, NewestFirst |-> FALSE, StartTime |-> T0500,
             EndTime |-> T0600, Verbose |-> FALSE, Limit |-> MaxLimit],
      resp |-> r, failAt |-> 0 - 1] : r \in TwoResponses}
    \cup
    {[tool |-> "batch",
      q |-> [ID |-> GoodId, Filter |-> UserFilter, NewestFirst |-> TRUE, StartTime |-> EmptyStr,
             EndTime |-> T0600, Verbose |-> TRUE, Limit |-> l],
      resp |-> r, failAt |-> f] : r \in {x \in TwoResponses : Len(x) = MaxLogs},
                                  l \in {1, MaxLimit + 1}, f \in {0 - 1, 1}}
    \cup
    {[tool |-> "session",
      q |-> [ID |-> GoodId, Filter |-> EmptyStr, NewestFirst |-> FALSE, StartTime |-> T0500,
             EndTime |-> BadWord, Verbose |-> FALSE, Limit |-> 1],
      resp |-> << >>, failAt |-> 0 - 1]}

\* mutant: the result buffer is a field of the source, shared by its invocations
ResultsOf_Shared(i) == 1

\* the result buffer an invocation appends to: `var results` is a local of the
\* call, so each invocation has its own
ResultsOf(i) == i

\* a caller calls the fetch: params is the call's own argument
TwoCall(i, a) ==
    /\ calls.frame[i].pc = "idle"
    /\ calls' = [calls EXCEPT !.args[i] = a,
                              !.frame[i] = [NoFrame EXCEPT !.pc = "query", !.tool = a.tool,
                                                           !.qp = a.q]]
    /\ UNCHANGED OneCallVars

\* invocation i parses its bounds, builds its filter and opens its iterator
TwoBegin(i) ==
    LET f == calls.frame[i]
    IN  /\ f.pc = "query"
        /\ IF ValidateTimes(f.qp, "source") # NoError
           THEN calls' = [calls EXCEPT !.frame[i].pc = "done",
                                       !.got[i] = [entries |-> << >>,
                                                   err |-> ValidateTimes(f.qp, "source")]]
           ELSE calls' = [calls EXCEPT !.frame[i].pc = "loop",
                                       !.frame[i].query = EntriesQuery(f.tool, f.qp),
                                       !.frame[i].it =
                                           [seq |-> EntriesOrder(calls.args[i].resp,
                                                                 f.qp.NewestFirst),
                                            pos |-> 0],
                                       !.results[ResultsOf(i)] = << >>]
        /\ UNCHANGED OneCallVars

\* another invocation is in its loop with entries in its buffer
OthersInLoop(i) ==
    \E j \in Invocations \ {i} :
        calls.frame[j].pc = "loop" /\ calls.results[ResultsOf(j)] # << >>

\* it.Next of invocation i returns the next record
TwoPullEntry(i) ==
    LET f == calls.frame[i]
        res == calls.results[ResultsOf(i)]
    IN  /\ f.pc = "loop"
        /\ LoopContinues(res, f.qp.Limit)
        /\ f.it.pos # calls.args[i].failAt
        /\ f.it.pos < Len(f.it.seq)
        /\ calls' = [calls EXCEPT !.frame[i].it.pos = f.it.pos + 1,
                                  !.results[ResultsOf(i)] =
                                      Append(res, Project(f.it.seq[f.it.pos + 1], f.qp.Verbose)),
                                  !.overlapped = calls.overlapped \/ OthersInLoop(i)]
        /\ UNCHANGED OneCallVars

\* it.Next of invocation i returns iterator.Done
TwoPullDone(i) ==
    LET f == calls.frame[i]
        res == calls.results[ResultsOf(i)]
    IN  /\ f.pc = "loop"
        /\ LoopContinues(res, f.qp.Limit)
        /\ f.it.pos # calls.args[i].failAt
        /\ f.it.pos = Len(f.it.seq)
        /\ calls' = [calls EXCEPT !.frame[i].pc = "done",
                                  !.got[i] = [entries |-> res, err |-> NoError]]
        /\ UNCHANGED OneCallVars

\* it.Next of invocation i returns another error
TwoPullError(i) ==
    LET f == calls.frame[i]
        res == calls.results[ResultsOf(i)]
    IN  /\ f.pc = "loop"
        /\ LoopContinues(res, f.qp.Limit)
        /\ f.it.pos = calls.args[i].failAt
        /\ calls' = [calls EXCEPT !.frame[i].pc = AfterIterError,
                                  !.got[i] = OnIterError(res)]
        /\ UNCHANGED OneCallVars

\* the loop condition of invocation i fails: it returns its buffer
TwoExit(i) ==
    LET f == calls.frame[i]
        res == calls.results[ResultsOf(i)]
    IN  /\ f.pc = "loop"
        /\ ~LoopContinues(res, f.qp.Limit)
        /\ calls' = [calls EXCEPT !.frame[i].pc = "done",
                                  !.got[i] = [entries |-> res, err |-> NoError]]
        /\ UNCHANGED OneCallVars

InitTwo == InitWith({<< >>}) /\ fx = NoCall

NextTwo ==
    \/ \E i \in Invocations, a \in TwoArgs : TwoCall(i, a)
    \/ \E i \in Invocations : TwoBegin(i)
    \/ \E i \in Invocations : TwoPullEntry(i)
    \/ \E i \in Invocations : TwoPullDone(i)
    \/ \E i \in Invocations : TwoPullError(i)
    \/ \E i \in Invocations : TwoExit(i)

\* two invocations of the fetch, their steps interleaved in any order
SpecTwo == InitTwo /\ [][NextTwo]_vars

\* ------------------------------------------------------------------------
\* Calls of the filter, URL and name functions with drawn arguments
\* ------------------------------------------------------------------------

MyProject == <<"m","y","-","p","r","o","j","e","c","t">>

UsCentral1 == <<"u","s","-","c","e","n","t","r","a","l","1">>

\* ids: plain ones, ones with double quotes, one with a line break, one with the
\* characters a query string gives a meaning to, and ones with a backslash before
\* a double quote and at the end
PureIds ==
    { <<"a","\\","\""," ","O","R"," ","b","=","\"">>,
      <<"a","\\">>,
      <<"m","y","-","b","a","t","c","h">>,
      <<"m","y","-","s","e","s","s","i","o","n">>,
      <<"m","y","-","s","e","s","s","i","o","n","\""," ","O","R"," ","r","o","o","t">>,
      <<"a","\"","b","\"">>,
      <<"x","\n","y">>,
      <<"a","+","b"," ","%","c","&","d","=","e">> }

\* window bounds: the bounds of the tests, bounds whose padding crosses a day, a
\* month, a leap day and a year, and a bound in a zone other than UTC
PureTimes ==
    { ParseRFC3339(T0500).t,
      ParseRFC3339(T0600).t,
      ParseRFC3339(T0700).t,
      ParseRFC3339(<<"2","0","2","5","-","0","1","-","0","1","T","0","0",":","0","0",":","3","0","Z">>).t,
      ParseRFC3339(<<"2","0","2","5","-","1","2","-","3","1","T","2","3",":","5","5",":","0","0","Z">>).t,
      ParseRFC3339(<<"2","0","2","4","-","0","3","-","0","1","T","0","0",":","0","0",":","0","0","Z">>).t,
      ParseRFC3339(<<"2","1","0","0","-","0","2","-","2","8","T","2","3",":","5","9",":","5","9","-","0","8",":","0","0">>).t }

\* the name of a resource of a collection
ResourceName(project, location, collection, id) ==
    <<"p","r","o","j","e","c","t","s">> \o <<"/">> \o project \o <<"/">> \o <<"l","o","c","a","t","i","o","n","s">> \o <<"/">> \o location
        \o <<"/">> \o collection \o <<"/">> \o id

NameParts == {MyProject, UsCentral1, <<"m","y","-","b","a","t","c","h">>}

Collections == {<<"b","a","t","c","h","e","s">>, <<"s","e","s","s","i","o","n","s">>, <<"j","o","b","s">>}

\* names: well-formed ones of each collection, and strings of another shape
PureNames ==
    {ResourceName(pr, l, c, i) : pr \in {MyProject}, l \in {UsCentral1, MyProject},
                                 c \in Collections, i \in NameParts}
    \cup { <<"i","n","v","a","l","i","d","-","n","a","m","e">>,
           EmptyStr,
           <<"p","r","o","j","e","c","t","s","/","m","y","-","p","r","o","j","e","c","t","/","l","o","c","a","t","i","o","n","s","/","u","s","-","c","e","n","t","r","a","l","1","/","b","a","t","c","h","e","s">>,
           <<"p","r","o","j","e","c","t","s","/","m","y","-","p","r","o","j","e","c","t","/","l","o","c","a","t","i","o","n","s","/","u","s","-","c","e","n","t","r","a","l","1","/","b","a","t","c","h","e","s","/","m","y","-","b","a","t","c","h","/","e","x","t","r","a">>,
           <<"f","o","l","d","e","r","s","/","m","y","-","p","r","o","j","e","c","t","/","l","o","c","a","t","i","o","n","s","/","u","s","-","c","e","n","t","r","a","l","1","/","s","e","s","s","i","o","n","s","/","m","y","-","b","a","t","c","h">>,
           <<"p","r","o","j","e","c","t","s","/","m","y","-","p","r","o","j","e","c","t","/","r","e","g","i","o","n","s","/","u","s","-","c","e","n","t","r","a","l","1","/","b","a","t","c","h","e","s","/","m","y","-","b","a","t","c","h">> }

\* windows: every bound as a start and as an end
PureWindows ==
    {w \in PureTimes \X PureTimes :
        w[1] = w[2] \/ w[1] = ParseRFC3339(T0500).t \/ w[2] = ParseRFC3339(T0600).t}

\* the arguments of one call: every identity and window with one name, and every
\* name with one identity and window
PureArgs ==
    {a \in [kind : ToolKinds, id : PureIds, window : PureWindows, name : PureNames] :
        \/ a.name = EmptyStr
        \/ a.id = <<"m","y","-","b","a","t","c","h">> /\ a.window = <<ParseRFC3339(T0500).t, ParseRFC3339(T0600).t>>}

InitPure ==
    /\ InitWith({<< >>})
    /\ \E a \in PureArgs :
         fx = [NoCall EXCEPT !.kind = a.kind, !.project = MyProject, !.location = UsCentral1,
                             !.id = a.id, !.start = a.window[1], !.end = a.window[2],
                             !.name = a.name]

OtherVars ==
    <<pc, entry, tool, params, qp, query, meta, nowRead, store, it, results, ret,
      metaCalls, logQueries, pulls, pulledOk, iterErr, ctx, calls, lookupName>>

\* BatchLogsFilter / SessionLogsFilter called
ApplyLogsFilter ==
    /\ fx.op = "none"
    /\ fx' = [fx EXCEPT !.op = "filter",
                        !.out = LogsFilter(fx.kind, fx.project, fx.location, fx.id, fx.start, fx.end)]
    /\ UNCHANGED OtherVars

\* BatchLogsURL / SessionLogsURL called
ApplyLogsURL ==
    /\ fx.op = "none"
    /\ fx' = [fx EXCEPT !.op = "logsurl",
                        !.out = LogsURL(fx.kind, fx.project, fx.location, fx.id, fx.start, fx.end)]
    /\ UNCHANGED OtherVars

\* BatchConsoleURL / SessionConsoleURL called
ApplyConsoleURL ==
    /\ fx.op = "none"
    /\ fx' = [fx EXCEPT !.op = "consoleurl",
                        !.out = ConsoleURL(fx.kind, fx.project, fx.location, fx.id)]
    /\ UNCHANGED OtherVars

\* ExtractBatchDetails / ExtractSessionDetails called
ApplyExtractDetails ==
    /\ fx.op = "none"
    /\ fx' = [fx EXCEPT !.op = "extract", !.parsed = ExtractDetails(fx.kind, fx.name)]
    /\ UNCHANGED OtherVars

\* what a FromProto function returns: the URL and no error, or no URL and the
\* error of the name
FromProtoResult(details, url) ==
    [out |-> IF details.ok THEN url ELSE EmptyStr,
     parsed |-> [ok |-> details.ok, project |-> EmptyStr, location |-> EmptyStr,
                 id |-> EmptyStr, err |-> details.err]]

\* mutant: the state time of the handle is used for both bounds
LogsURLFromProto_StateTimeOnly(kind, name, createTime, stateTime) ==
    LET d == ExtractDetails(kind, name)
    IN  FromProtoResult(d, LogsURL(kind, d.project, d.location, d.id, stateTime, stateTime))

\* BatchLogsURLFromProto / SessionLogsURLFromProto of a handle with this name,
\* create time and state time
LogsURLFromProto(kind, name, createTime, stateTime) ==
    LET d == ExtractDetails(kind, name)
    IN  FromProtoResult(d, LogsURL(kind, d.project, d.location, d.id, createTime, stateTime))

\* BatchConsoleURLFromProto / SessionConsoleURLFromProto of a handle with this name
ConsoleURLFromProto(kind, name) ==
    LET d == ExtractDetails(kind, name)
    IN  FromProtoResult(d, ConsoleURL(kind, d.project, d.location, d.id))

\* BatchLogsURLFromProto / SessionLogsURLFromProto called on the handle
\* (name, createTime = start, stateTime = end)
ApplyLogsURLFromProto ==
    /\ fx.op = "none"
    /\ fx' = [fx EXCEPT !.op = "logsurlproto",
                        !.out = LogsURLFromProto(fx.kind, fx.name, fx.start, fx.end).out,
                        !.parsed = LogsURLFromProto(fx.kind, fx.name, fx.start, fx.end).parsed]
    /\ UNCHANGED OtherVars

\* BatchConsoleURLFromProto / SessionConsoleURLFromProto called on the handle
ApplyConsoleURLFromProto ==
    /\ fx.op = "none"
    /\ fx' = [fx EXCEPT !.op = "consoleurlproto",
                        !.out = ConsoleURLFromProto(fx.kind, fx.name).out,
                        !.parsed = ConsoleURLFromProto(fx.kind, fx.name).parsed]
    /\ UNCHANGED OtherVars

NextPure ==
    \/ ApplyLogsFilter
    \/ ApplyLogsURL
    \/ ApplyConsoleURL
    \/ ApplyExtractDetails
    \/ ApplyLogsURLFromProto
    \/ ApplyConsoleURLFromProto

SpecPure == InitPure /\ [][NextPure]_vars

\* ------------------------------------------------------------------------
\* Properties of the fetch loop
\* ------------------------------------------------------------------------

Min(a, b) == IF a < b THEN a ELSE b

\* the i-th record of the store in the ordering asked for
Nth(i) == IF qp.NewestFirst THEN store[Len(store) + 1 - i] ELSE store[i]

\* the fetch ran to its end without an iteration error
FetchSucceeded == pc = "done" /\ query.issued /\ ~iterErr

\* C1: a fetch with limit N >= 1 over a backend sequence of M records that iterates
\* without error returns exactly min(N, M) entries, the i-th being the projection of
\* the i-th record of the requested ordering.
C1_LimitAndOrder ==
    (FetchSucceeded /\ qp.Limit >= 1) =>
        /\ ret.err = NoError
        /\ Len(ret.entries) = Min(qp.Limit, Len(store))
        /\ \A i \in 1..Len(ret.entries) : ret.entries[i] = Project(Nth(i), qp.Verbose)

C1_Witness ==
    /\ FetchSucceeded
    /\ qp.NewestFirst
    /\ qp.Limit = 2
    /\ Len(store) = 3
    /\ store[1] # store[3]
    /\ Len(ret.entries) = 2

\* C2: in every state of the fetch loop the result buffer holds at most limit entries.
C2_BufferBounded == pc \in {"loop", "done"} => Len(results) <= qp.Limit

C2_Witness ==
    /\ pc = "loop"
    /\ qp.Limit >= 1
    /\ Len(results) = qp.Limit
    /\ Len(store) > qp.Limit

\* C3: once the iterator has returned an error other than end-of-sequence the fetch
\* makes no further pull and the operation has ended with an error that wraps the
\* backend error; it has not ended successfully.
C3_IterErrorAborts ==
    /\ [](iterErr => (pc = "done" /\ ret.err.kind = "LogFetchFailed" /\ ret.err.wraps = "backend"))
    /\ [][iterErr => (pulls' = pulls /\ ret' = ret)]_vars

C3_Witness == iterErr /\ pulledOk >= 1 /\ entry = "invoke" /\ pc = "done"

\* C4 (as claimed): after an iteration error that follows k >= 1 produced entries, the
\* k entries are delivered to the caller with the error.
C4_PartialDelivered ==
    (iterErr /\ pulledOk >= 1) => (Len(ret.entries) = pulledOk /\ ret.entries = results)

\* C4 (amended): after an iteration error that follows k >= 1 accumulated entries, the
\* fetch returns no entries: the k entries of the buffer are dropped, and only the
\* LogFetchFailed error reaches the caller.
C4_PartialDropped ==
    (iterErr /\ pulledOk >= 1) =>
        /\ Len(results) = pulledOk
        /\ ret.entries = << >>
        /\ ret.err.kind = "LogFetchFailed"

C4_Witness == iterErr /\ pulledOk = 2 /\ Len(results) = 2 /\ ret.entries = << >>

\* ------------------------------------------------------------------------
\* Properties of the window resolution
\* ------------------------------------------------------------------------

\* the caller supplied the bound
Supplied(b) == b.ok /\ b.v # EmptyStr

\* the id passed the checks of Invoke
IdAccepted == params.id.ok /\ ~Contains(params.id.v, "/")

\* the invocation got through the resolution of its window: it was not rejected
\* before, and the lookup, if one was made, returned the metadata
WindowResolved ==
    /\ entry = "invoke"
    /\ qp.Limit > 0
    /\ pc # "lookup"
    /\ metaCalls > 0 => meta.kind = "ok"

\* the state is terminal for the resource type of the tool
IsTerminal ==
    \/ meta.state \in {"SUCCEEDED", "FAILED", "CANCELLED"}
    \/ tool = "session" /\ meta.state = "TERMINATED"

\* the end bound is the reading of the wall clock, in RFC3339
EndIsNow == nowRead.ok /\ qp.EndTime = nowRead.v /\ ValidRFC3339(qp.EndTime)

\* C5 (as claimed): the resolved end is the caller's end when supplied; otherwise
\* metadata.stateTime when the state is terminal for the resource type, and the
\* wall-clock time for every other state.
C5_EndResolution ==
    WindowResolved =>
        IF Supplied(params.endTime) THEN qp.EndTime = params.endTime.v
        ELSE IF IsTerminal THEN qp.EndTime = meta.stateTime.v
        ELSE EndIsNow

\* C5 (amended): the resolved end is the caller's end when supplied; otherwise
\* metadata.stateTime when the state is terminal for the resource type and the
\* metadata carries a non-empty stateTime; and the wall-clock time in RFC3339 in
\* every other case (non-terminal state, or no stateTime).
C5_EndResolutionAmended ==
    WindowResolved =>
        IF Supplied(params.endTime) THEN qp.EndTime = params.endTime.v
        ELSE IF IsTerminal /\ Supplied(meta.stateTime) THEN qp.EndTime = meta.stateTime.v
        ELSE EndIsNow

C5_Witness ==
    /\ WindowResolved
    /\ tool = "session"
    /\ ~Supplied(params.endTime)
    /\ meta.state = "TERMINATED"
    /\ qp.EndTime = T0700

\* C6: the resolved start is the caller's start when supplied, and
\* metadata.createTime (empty when the metadata has none) otherwise.
C6_StartResolution ==
    WindowResolved =>
        IF Supplied(params.startTime) THEN qp.StartTime = params.startTime.v
        ELSE qp.StartTime = meta.createTime.v

C6_Witness ==
    /\ WindowResolved
    /\ Supplied(params.startTime)
    /\ meta.createTime.ok
    /\ meta.createTime.v # params.startTime.v
    /\ qp.StartTime = params.startTime.v

\* C7 (as claimed): when the resolution completes without error and the fetch is
\* invoked, both bounds passed to the fetch are non-empty.
C7_BothBoundsPresent ==
    (entry = "invoke" /\ pc \in {"query", "loop"}) =>
        (qp.StartTime # EmptyStr /\ qp.EndTime # EmptyStr)

\* C8 (as claimed): a metadata lookup is made in an invocation if and only if at
\* least one of start and end was not supplied.
C8_LookupIffMissing ==
    entry = "invoke" =>
        (metaCalls >= 1 <=> (~Supplied(params.startTime) \/ ~Supplied(params.endTime)))

\* the invocation is rejected before the window resolution: by the id checks, or,
\* in the batch tool, by a supplied bound that is not RFC3339
RejectedFirst ==
    \/ ~IdAccepted
    \/ /\ tool = "batch"
       /\ \/ Supplied(params.startTime) /\ ~ValidRFC3339(params.startTime.v)
          \/ Supplied(params.endTime) /\ ~ValidRFC3339(params.endTime.v)

\* C8 (amended): exactly one metadata lookup is made when at least one of start and
\* end was not supplied and the invocation was not rejected first; no lookup is made
\* otherwise, in particular none when both bounds are supplied.
C8_LookupIffMissingAmended ==
    entry = "invoke" =>
        metaCalls = (IF (~Supplied(params.startTime) \/ ~Supplied(params.endTime)) /\ ~RejectedFirst
                     THEN 1 ELSE 0)

C8_Witness ==
    /\ entry = "invoke"
    /\ Supplied(params.startTime)
    /\ ~Supplied(params.endTime)
    /\ metaCalls = 1
    /\ logQueries = 1

\* a supplied bound of the invocation is not RFC3339
BadSupplied(b) == Supplied(b) /\ ~ValidRFC3339(b.v)

\* C9 (as claimed): a supplied start or end that is not RFC3339 fails the invocation
\* with InvalidTimeFormat naming the field, with no metadata lookup and no log
\* query, also when the other bound is absent.
C9_InvalidTimeImmediate ==
    (entry = "invoke" /\ IdAccepted /\ (BadSupplied(params.startTime) \/ BadSupplied(params.endTime))) =>
        /\ metaCalls = 0
        /\ logQueries = 0
        /\ pc = "done"
        /\ ret.err.kind = "InvalidTimeFormat"
        /\ \/ ret.err.field = "startTime" /\ BadSupplied(params.startTime)
           \/ ret.err.field = "endTime" /\ BadSupplied(params.endTime)

\* the bound was filled in from the metadata with a string that is not RFC3339
FilledBad(supplied, resolved) ==
    ~Supplied(supplied) /\ resolved # EmptyStr /\ ~ValidRFC3339(resolved)

MetadataFilledBad ==
    /\ WindowResolved
    /\ metaCalls > 0
    /\ ~BadSupplied(params.startTime)
    /\ ~BadSupplied(params.endTime)
    /\ FilledBad(params.startTime, qp.StartTime) \/ FilledBad(params.endTime, qp.EndTime)

\* C10 (as claimed): a metadata timestamp that is not RFC3339 never causes an
\* InvalidTimeFormat failure of the invocation.
C10_MetadataNotValidated ==
    MetadataFilledBad => ret.err.kind # "InvalidTimeFormat"

\* C10 (amended): in the session-logs invocation a bound filled in from the metadata
\* is validated like a supplied one: a metadata timestamp that is not RFC3339 fails
\* the invocation with InvalidTimeFormat naming the bound, before any log query; the
\* batch-logs Invoke makes no check of its own after the resolution and hands the
\* bounds to the fetch as resolved.
C10_MetadataValidatedInSession ==
    MetadataFilledBad =>
        IF tool = "session"
        THEN /\ pc = "done"
             /\ ret.err.kind = "InvalidTimeFormat"
             /\ ret.err.by = "tool"
             /\ logQueries = 0
             /\ \/ ret.err.field = "startTime" /\ FilledBad(params.startTime, qp.StartTime)
                \/ ret.err.field = "endTime" /\ FilledBad(params.endTime, qp.EndTime)
        ELSE ret.err.by # "tool"

C10_Witness ==
    /\ MetadataFilledBad
    /\ tool = "session"
    /\ meta.createTime.v = BadWord
    /\ ret.err.field = "startTime"

\* ------------------------------------------------------------------------
\* Properties of the filter
\* ------------------------------------------------------------------------

HasPrefix(s, p) == Len(s) >= Len(p) /\ SubSeq(s, 1, Len(p)) = p

\* the index of the quote that closes a quoted value whose content starts at i,
\* a backslash taking the character after it with it; 0 when there is none
RECURSIVE CloseQuote(_, _)
CloseQuote(s, i) ==
    IF i > Len(s) THEN 0
    ELSE IF s[i] = Backslash THEN CloseQuote(s, i + 2)
    ELSE IF s[i] = Quote THEN i
    ELSE CloseQuote(s, i + 1)

\* s read as the clauses field"value" of the given fields, one newline between
\* two clauses and nothing before the first or after the last: the values as
\* written between their quotes
RECURSIVE ReadClauses(_, _)
ReadClauses(s, fields) ==
    IF fields = << >> THEN [ok |-> s = << >>, vals |-> << >>]
    ELSE LET f == Head(fields) \o <<Quote>>
             c == IF HasPrefix(s, f) THEN CloseQuote(s, Len(f) + 1) ELSE 0
             rest == SubSeq(s, c + 1, Len(s))
             more == Len(fields) > 1
         IN  IF c = 0 \/ (more /\ (rest = << >> \/ Head(rest) # Newline))
             THEN [ok |-> FALSE, vals |-> << >>]
             ELSE LET r == ReadClauses(IF more THEN Tail(rest) ELSE rest, Tail(fields))
                  IN  [ok |-> r.ok, vals |-> <<SubSeq(s, Len(f) + 1, c - 1)>> \o r.vals]

\* the fields of the six clauses, per resource type
ExpectedFields(kind) ==
    IF kind = "batch"
    THEN << <<"r","e","s","o","u","r","c","e",".","t","y","p","e","=">>,
            <<"r","e","s","o","u","r","c","e",".","l","a","b","e","l","s",".","p","r","o","j","e","c","t","_","i","d","=">>,
            <<"r","e","s","o","u","r","c","e",".","l","a","b","e","l","s",".","l","o","c","a","t","i","o","n","=">>,
            <<"r","e","s","o","u","r","c","e",".","l","a","b","e","l","s",".","b","a","t","c","h","_","i","d","=">>,
            <<"t","i","m","e","s","t","a","m","p",">","=">>,
            <<"t","i","m","e","s","t","a","m","p","<","=">> >>
    ELSE << <<"r","e","s","o","u","r","c","e",".","t","y","p","e","=">>,
            <<"r","e","s","o","u","r","c","e",".","l","a","b","e","l","s",".","s","e","s","s","i","o","n","_","i","d","=">>,
            <<"r","e","s","o","u","r","c","e",".","l","a","b","e","l","s",".","p","r","o","j","e","c","t","_","i","d","=">>,
            <<"r","e","s","o","u","r","c","e",".","l","a","b","e","l","s",".","l","o","c","a","t","i","o","n","=">>,
            <<"t","i","m","e","s","t","a","m","p",">","=">>,
            <<"t","i","m","e","s","t","a","m","p","<","=">> >>

\* the values of the call are free of backslashes, so that a backslash in a
\* clause is one the builder wrote
PlainArgs ==
    ~Contains(fx.project, Backslash) /\ ~Contains(fx.location, Backslash) /\ ~Contains(fx.id, Backslash)

\* C11: the filter of a resource reads as exactly six clauses, one newline between
\* two of them and none before the first or after the last, in the order of the
\* resource type: resource.type, session_id, project_id, location, timestamp>=,
\* timestamp<= for a session; resource.type, project_id, location, batch_id,
\* timestamp>=, timestamp<= for a batch.
C11_SixClausesInOrder ==
    (fx.op = "filter" /\ PlainArgs) =>
        LET r == ReadClauses(fx.out, ExpectedFields(fx.kind))
        IN  /\ r.ok
            /\ Len(r.vals) = 6
            /\ r.vals[1] = (IF fx.kind = "batch" THEN <<"c","l","o","u","d","_","d","a","t","a","p","r","o","c","_","b","a","t","c","h">> ELSE <<"c","l","o","u","d","_","d","a","t","a","p","r","o","c","_","s","e","s","s","i","o","n">>)

\* the filter of TestSessionLogsFilter was built
C11_Witness ==
    /\ fx.op = "filter"
    /\ fx.kind = "session"
    /\ fx.out = <<"r","e","s","o","u","r","c","e",".","t","y","p","e","=","\"","c","l","o","u","d","_","d","a","t","a","p","r","o","c","_","s","e","s","s","i","o","n","\"","\n","r","e","s","o","u","r","c","e",".","l","a","b","e","l","s",".","s","e","s","s","i","o","n","_","i","d","=","\"","m","y","-","s","e","s","s","i","o","n","\"","\n","r","e","s","o","u","r","c","e",".","l","a","b","e","l","s",".","p","r","o","j","e","c","t","_","i","d","=","\"","m","y","-","p","r","o","j","e","c","t","\"","\n","r","e","s","o","u","r","c","e",".","l","a","b","e","l","s",".","l","o","c","a","t","i","o","n","=","\"","u","s","-","c","e","n","t","r","a","l","1","\"","\n","t","i","m","e","s","t","a","m","p",">","=","\"","2","0","2","5","-","1","0","-","0","1","T","0","4",":","5","9",":","0","0","Z","\"","\n","t","i","m","e","s","t","a","m","p","<","=","\"","2","0","2","5","-","1","0","-","0","1","T","0","6",":","1","0",":","0","0","Z","\"">>

\* the position of the id clause among the six
IdIndex(kind) == IF kind = "batch" THEN 4 ELSE 2

\* every double quote of a written value has a backslash right before it
QuotesEscaped(raw) == \A i \in 1..Len(raw) : raw[i] = Quote => (i > 1 /\ raw[i - 1] = Backslash)

\* a written value read back: the backslash before a double quote is dropped
Unescape(raw) ==
    Concat([i \in 1..Len(raw) |->
              IF raw[i] = Backslash /\ i < Len(raw) /\ raw[i + 1] = Quote THEN << >> ELSE <<raw[i]>>])

NumQuotes(v) == Cardinality({i \in 1..Len(v) : v[i] = Quote})

\* C12: in the filter built for an id, every double quote of the id stands in the id
\* clause with a backslash before it, between the quotes that surround the value
\* (the clause still reads as one quoted value, which gives back the id), and the
\* other five clauses are those of the filter built for an id without quotes.
C12_IdQuotesEscaped ==
    (fx.op = "filter" /\ PlainArgs) =>
        LET r == ReadClauses(fx.out, ExpectedFields(fx.kind))
            plain == ReadClauses(LogsFilter(fx.kind, fx.project, fx.location, <<"m","y","-","b","a","t","c","h">>,
                                            fx.start, fx.end),
                                 ExpectedFields(fx.kind))
            k == IdIndex(fx.kind)
        IN  /\ r.ok /\ plain.ok
            /\ QuotesEscaped(r.vals[k])
            /\ NumQuotes(r.vals[k]) = NumQuotes(fx.id)
            /\ Unescape(r.vals[k]) = fx.id
            /\ \A j \in (1..6) \ {k} : r.vals[j] = plain.vals[j]

\* the filter of TestSessionLogsFilter_Escaping was built
C12_Witness ==
    /\ fx.op = "filter"
    /\ fx.kind = "session"
    /\ fx.id = <<"m","y","-","s","e","s","s","i","o","n","\""," ","O","R"," ","r","o","o","t">>
    /\ fx.out = <<"r","e","s","o","u","r","c","e",".","t","y","p","e","=","\"","c","l","o","u","d","_","d","a","t","a","p","r","o","c","_","s","e","s","s","i","o","n","\"","\n","r","e","s","o","u","r","c","e",".","l","a","b","e","l","s",".","s","e","s","s","i","o","n","_","i","d","=","\"","m","y","-","s","e","s","s","i","o","n","\\","\""," ","O","R"," ","r","o","o","t","\"","\n","r","e","s","o","u","r","c","e",".","l","a","b","e","l","s",".","p","r","o","j","e","c","t","_","i","d","=","\"","m","y","-","p","r","o","j","e","c","t","\"","\n","r","e","s","o","u","r","c","e",".","l","a","b","e","l","s",".","l","o","c","a","t","i","o","n","=","\"","u","s","-","c","e","n","t","r","a","l","1","\"","\n","t","i","m","e","s","t","a","m","p",">","=","\"","2","0","2","5","-","1","0","-","0","1","T","0","4",":","5","9",":","0","0","Z","\"","\n","t","i","m","e","s","t","a","m","p","<","=","\"","2","0","2","5","-","1","0","-","0","1","T","0","6",":","1","0",":","0","0","Z","\"">>

\* ------------------------------------------------------------------------
\* Reading a URL back
\* ------------------------------------------------------------------------

\* the first index of c in s (c occurs in s)
IndexOf(s, c) == CHOOSE i \in 1..Len(s) : s[i] = c /\ \A j \in 1..(i - 1) : s[j] # c

\* the part of a URL after its first question mark
QueryOf(url) == SubSeq(url, IndexOf(url, "?") + 1, Len(url))

\* name=value split at its first equals sign
NameValue(p) ==
    IF Contains(p, "=")
    THEN <<SubSeq(p, 1, IndexOf(p, "=") - 1), SubSeq(p, IndexOf(p, "=") + 1, Len(p))>>
    ELSE <<p, EmptyStr>>

\* the parameters of a URL in their order, each a name and its value as written
URLParams(url) ==
    LET ps == Split(QueryOf(url), "&") IN [i \in 1..Len(ps) |-> NameValue(ps[i])]

HexVal(c) == (CHOOSE i \in 1..16 : HexDigits[i] = c) - 1

CharOf(n) == IF n = 10 THEN Newline ELSE Printable[n - 31]

\* percent-decoding of a query component: %XX is the byte XX, a plus is a blank
QueryUnescape(v) ==
    Concat([i \in 1..Len(v) |->
              IF (i > 1 /\ v[i - 1] = "%") \/ (i > 2 /\ v[i - 2] = "%") THEN << >>
              ELSE IF v[i] = "%" THEN <<CharOf(16 * HexVal(v[i + 1]) + HexVal(v[i + 2]))>>
              ELSE IF v[i] = "+" THEN <<" ">>
              ELSE <<v[i]>>])

\* the filter a call produced: its result, or the decoded advancedFilter of the URL
FilterProduced ==
    IF fx.op = "filter" THEN fx.out ELSE QueryUnescape(URLParams(fx.out)[1][2])

\* ------------------------------------------------------------------------
\* Properties of the window padding
\* ------------------------------------------------------------------------

\* days of a year before each month, outside leap years
DaysBeforeMonth == <<0, 31, 59, 90, 120, 151, 181, 212, 243, 273, 304, 334>>

\* the days from 0001-01-01 to the date of t
DayNumber(t) ==
    LET y == t.year - 1
        leap == (t.year % 4 = 0 /\ t.year % 100 # 0) \/ t.year % 400 = 0
    IN  365 * y + (y \div 4) - (y \div 100) + (y \div 400)
            + DaysBeforeMonth[t.month] + (IF leap /\ t.month > 2 THEN 1 ELSE 0) + (t.day - 1)

\* the instant of t in minutes of universal time, its seconds aside
InstantMinutes(t) == DayNumber(t) * 1440 + t.hour * 60 + t.min - t.off

\* C13: for every window the lower timestamp bound of the filter is the instant of
\* the start minus one minute and the upper one the instant of the end plus ten
\* minutes, in the batch and the session filter and in the filter a logs URL carries.
C13_PaddedBounds ==
    (fx.op \in {"filter", "logsurl"} /\ PlainArgs) =>
        LET r == ReadClauses(FilterProduced, ExpectedFields(fx.kind))
            lo == ParseRFC3339(r.vals[5])
            hi == ParseRFC3339(r.vals[6])
        IN  /\ r.ok
            /\ lo.ok /\ hi.ok
            /\ InstantMinutes(lo.t) = InstantMinutes(fx.start) - 1
            /\ lo.t.sec = fx.start.sec
            /\ InstantMinutes(hi.t) = InstantMinutes(fx.end) + 10
            /\ hi.t.sec = fx.end.sec

\* a logs URL whose lower bound falls on the leap day before its start
C13_Witness ==
    /\ fx.op = "logsurl"
    /\ PlainArgs
    /\ fx.start = ParseRFC3339(<<"2","0","2","4","-","0","3","-","0","1","T","0","0",":","0","0",":","0","0","Z">>).t
    /\ fx.end = ParseRFC3339(T0600).t
    /\ ReadClauses(FilterProduced, ExpectedFields(fx.kind)).vals[5] = <<"2","0","2","4","-","0","2","-","2","9","T","2","3",":","5","9",":","0","0","Z">>
    /\ ReadClauses(FilterProduced, ExpectedFields(fx.kind)).vals[6] = <<"2","0","2","5","-","1","0","-","0","1","T","0","6",":","1","0",":","0","0","Z">>

\* ------------------------------------------------------------------------
\* Properties of the filter sent to the backend
\* ------------------------------------------------------------------------

\* the resource filter of the query under way
ResourceFilter ==
    LogsFilter(tool, SrcProject, SrcLocation, qp.ID, BoundTime(qp.StartTime), BoundTime(qp.EndTime))

\* the last n characters of s
Suffix(s, n) == SubSeq(s, Len(s) - n + 1, Len(s))

\* C14: the filter sent to the backend is the resource filter followed, when the
\* caller's fragment is not empty, by one newline and the fragment unchanged as
\* the last line; with an empty fragment it is the resource filter exactly.
C14_FragmentAppended ==
    query.issued =>
        IF qp.Filter = EmptyStr
        THEN query.filter = ResourceFilter
        ELSE /\ Len(query.filter) = Len(ResourceFilter) + 1 + Len(qp.Filter)
             /\ HasPrefix(query.filter, ResourceFilter)
             /\ query.filter[Len(ResourceFilter) + 1] = Newline
             /\ Suffix(query.filter, Len(qp.Filter)) = qp.Filter

\* a query was issued with the caller's fragment as the seventh line
C14_Witness ==
    /\ query.issued
    /\ qp.Filter = UserFilter
    /\ Split(query.filter, Newline)[7] = UserFilter
    /\ Len(Split(query.filter, Newline)) = 7

\* ------------------------------------------------------------------------
\* Properties of the URLs
\* ------------------------------------------------------------------------

\* the names of the parameters of a URL, in their order
ParamNames(url) == [i \in 1..Len(URLParams(url)) |-> URLParams(url)[i][1]]

\* C15: a logs URL carries advancedFilter, then project, and for a batch only a
\* last parameter resource=cloud_dataproc_batch%2Fbatch_id%2F<id>; the URL of a
\* session carries no resource parameter.
C15_ParamOrder ==
    fx.op = "logsurl" =>
        LET ps == URLParams(fx.out)
            written == <<"c","l","o","u","d","_","d","a","t","a","p","r","o","c","_","b","a","t","c","h","%","2","F","b","a","t","c","h","_","i","d","%","2","F">>
        IN  /\ HasPrefix(fx.out, <<"h","t","t","p","s",":","/","/","c","o","n","s","o","l","e",".","c","l","o","u","d",".","g","o","o","g","l","e",".","c","o","m","/","l","o","g","s","/","v","i","e","w","e","r","?","a","d","v","a","n","c","e","d","F","i","l","t","e","r","=">>)
            /\ ParamNames(fx.out) =
                 (IF fx.kind = "batch"
                  THEN <<<<"a","d","v","a","n","c","e","d","F","i","l","t","e","r">>, <<"p","r","o","j","e","c","t">>, <<"r","e","s","o","u","r","c","e">>>>
                  ELSE <<<<"a","d","v","a","n","c","e","d","F","i","l","t","e","r">>, <<"p","r","o","j","e","c","t">>>>)
            /\ QueryUnescape(ps[2][2]) = fx.project
            /\ fx.kind = "batch" =>
                 /\ HasPrefix(ps[3][2], written)
                 /\ QueryUnescape(SubSeq(ps[3][2], Len(written) + 1, Len(ps[3][2]))) = fx.id
            /\ fx.kind = "session" => \A i \in 1..Len(ps) : ps[i][1] # <<"r","e","s","o","u","r","c","e">>

\* the URL of TestBatchLogsURL was built
C15_Witness ==
    /\ fx.op = "logsurl"
    /\ fx.kind = "batch"
    /\ fx.out = <<"h","t","t","p","s",":","/","/","c","o","n","s","o","l","e",".","c","l","o","u","d",".","g","o","o","g","l","e",".","c","o","m","/","l","o","g","s","/","v","i","e","w","e","r","?","a","d","v","a","n","c","e","d","F","i","l","t","e","r","=","r","e","s","o","u","r","c","e",".","t","y","p","e","%","3","D","%","2","2","c","l","o","u","d","_","d","a","t","a","p","r","o","c","_","b","a","t","c","h","%","2","2","%","0","A","r","e","s","o","u","r","c","e",".","l","a","b","e","l","s",".","p","r","o","j","e","c","t","_","i","d","%","3","D","%","2","2","m","y","-","p","r","o","j","e","c","t","%","2","2","%","0","A","r","e","s","o","u","r","c","e",".","l","a","b","e","l","s",".","l","o","c","a","t","i","o","n","%","3","D","%","2","2","u","s","-","c","e","n","t","r","a","l","1","%","2","2","%","0","A","r","e","s","o","u","r","c","e",".","l","a","b","e","l","s",".","b","a","t","c","h","_","i","d","%","3","D","%","2","2","m","y","-","b","a","t","c","h","%","2","2","%","0","A","t","i","m","e","s","t","a","m","p","%","3","E","%","3","D","%","2","2","2","0","2","5","-","1","0","-","0","1","T","0","4","%","3","A","5","9","%","3","A","0","0","Z","%","2","2","%","0","A","t","i","m","e","s","t","a","m","p","%","3","C","%","3","D","%","2","2","2","0","2","5","-","1","0","-","0","1","T","0","6","%","3","A","1","0","%","3","A","0","0","Z","%","2","2","&","p","r","o","j","e","c","t","=","m","y","-","p","r","o","j","e","c","t","&","r","e","s","o","u","r","c","e","=","c","l","o","u","d","_","d","a","t","a","p","r","o","c","_","b","a","t","c","h","%","2","F","b","a","t","c","h","_","i","d","%","2","F","m","y","-","b","a","t","c","h">>

\* C16: decoding the advancedFilter parameter of the logs URL gives exactly the
\* filter the filter builder produces for the same identity and window.
C16_DecodedFilter ==
    fx.op = "logsurl" =>
        /\ URLParams(fx.out)[1][1] = <<"a","d","v","a","n","c","e","d","F","i","l","t","e","r">>
        /\ QueryUnescape(URLParams(fx.out)[1][2])
             = LogsFilter(fx.kind, fx.project, fx.location, fx.id, fx.start, fx.end)

\* a URL whose filter holds a plus sign, a blank, a percent sign, an ampersand and
\* an equals sign, none of them written as itself
C16_Witness ==
    /\ fx.op = "logsurl"
    /\ fx.id = <<"a","+","b"," ","%","c","&","d","=","e">>
    /\ fx.start = ParseRFC3339(T0700).t
    /\ Len(URLParams(fx.out)) = (IF fx.kind = "batch" THEN 3 ELSE 2)
    /\ URLParams(fx.out)[1][2] # LogsFilter(fx.kind, fx.project, fx.location, fx.id, fx.start, fx.end)

NameSegments == {<<"m","y","-","p","r","o","j","e","c","t">>, <<"u","s","-","c","e","n","t","r","a","l","1">>, <<"m","y","-","b","a","t","c","h">>}

\* the name projects/P/locations/L/batches/B, or .../sessions/B
NameOfForm(kind, P, L, B) ==
    <<"p","r","o","j","e","c","t","s","/">> \o P \o <<"/","l","o","c","a","t","i","o","n","s","/">> \o L
        \o (IF kind = "batch" THEN <<"/","b","a","t","c","h","e","s","/">> ELSE <<"/","s","e","s","s","i","o","n","s","/">>) \o B

\* C18: for a name projects/P/locations/L/batches/B (sessions/B for a session) the
\* parts returned are P, L and B; for every other string the result is the error
\* "failed to parse batch name: " ("... session name: ") followed by the input as
\* it came, and no part is returned.
C18_ExtractDetails ==
    fx.op = "extract" =>
        /\ \A P \in NameSegments, L \in NameSegments, B \in NameSegments :
             fx.name = NameOfForm(fx.kind, P, L, B) =>
                /\ fx.parsed.ok
                /\ fx.parsed.project = P /\ fx.parsed.location = L /\ fx.parsed.id = B
                /\ fx.parsed.err = EmptyStr
        /\ (~\E P \in NameSegments, L \in NameSegments, B \in NameSegments :
                fx.name = NameOfForm(fx.kind, P, L, B)) =>
                /\ ~fx.parsed.ok
                /\ fx.parsed.err =
                     (IF fx.kind = "batch" THEN <<"f","a","i","l","e","d"," ","t","o"," ","p","a","r","s","e"," ","b","a","t","c","h"," ","n","a","m","e",":"," ">>
                                           ELSE <<"f","a","i","l","e","d"," ","t","o"," ","p","a","r","s","e"," ","s","e","s","s","i","o","n"," ","n","a","m","e",":"," ">>) \o fx.name
                /\ fx.parsed.project = EmptyStr /\ fx.parsed.location = EmptyStr
                /\ fx.parsed.id = EmptyStr

\* the name of a session given to the parser of batch names
C18_Witness ==
    /\ fx.op = "extract"
    /\ fx.kind = "batch"
    /\ fx.name = <<"p","r","o","j","e","c","t","s","/","m","y","-","p","r","o","j","e","c","t","/","l","o","c","a","t","i","o","n","s","/","u","s","-","c","e","n","t","r","a","l","1","/","s","e","s","s","i","o","n","s","/","m","y","-","b","a","t","c","h">>
    /\ ~fx.parsed.ok
    /\ fx.parsed.err = <<"f","a","i","l","e","d"," ","t","o"," ","p","a","r","s","e"," ","b","a","t","c","h"," ","n","a","m","e",":"," ","p","r","o","j","e","c","t","s","/","m","y","-","p","r","o","j","e","c","t","/","l","o","c","a","t","i","o","n","s","/","u","s","-","c","e","n","t","r","a","l","1","/","s","e","s","s","i","o","n","s","/","m","y","-","b","a","t","c","h">>

\* ------------------------------------------------------------------------
\* Properties of the projection
\* ------------------------------------------------------------------------

VerboseKeys == {"insertId", "labels", "httpRequest", "trace", "spanId", "operation", "sourceLocation"}

\* the record carries the field behind a verbose key
FieldPresent(rec, k) ==
    CASE k = "insertId" -> rec.InsertID # ""
      [] k = "labels" -> DOMAIN rec.Labels # {}
      [] k = "httpRequest" -> rec.HTTPRequest.ok
      [] k = "trace" -> rec.Trace # ""
      [] k = "spanId" -> rec.SpanID # ""
      [] k = "operation" -> rec.Operation.ok
      [] k = "sourceLocation" -> rec.SourceLocation.ok

\* C19: with verbose=false no entry, buffered or returned, has any of the keys
\* insertId, labels, httpRequest, trace, spanId, operation, sourceLocation,
\* whatever the record behind it carries.
C19_NoVerboseKeys ==
    (query.issued /\ ~qp.Verbose) =>
        /\ \A i \in 1..Len(results) : DOMAIN results[i] \cap VerboseKeys = {}
        /\ \A i \in 1..Len(ret.entries) : DOMAIN ret.entries[i] \cap VerboseKeys = {}

\* a record with every optional field was returned without the verbose keys
C19_Witness ==
    /\ FetchSucceeded
    /\ ~qp.Verbose
    /\ Len(ret.entries) >= 1
    /\ Nth(1) = RecFull
    /\ DOMAIN ret.entries[1] = {"logName", "timestamp", "severity", "resource", "payload"}

\* C20: with verbose=true each of the keys insertId, labels, httpRequest, trace,
\* spanId, operation, sourceLocation is in a returned entry if and only if the
\* record behind it carries the field; a field the record lacks is left out.
C20_VerboseIffPresent ==
    (FetchSucceeded /\ qp.Verbose) =>
        \A i \in 1..Len(ret.entries) : \A k \in VerboseKeys :
            (k \in DOMAIN ret.entries[i]) <=> FieldPresent(Nth(i), k)

\* ------------------------------------------------------------------------
\* Properties of the limit
\* ------------------------------------------------------------------------

\* C21: the limit the fetch of an invocation runs with is the caller's limit when
\* that is a positive integer and 20 when it is absent, zero or negative; the
\* fetch never runs with a limit that is not positive.
C21_EffectiveLimit ==
    (entry = "invoke" /\ (pc \in {"query", "loop"} \/ query.issued)) =>
        /\ qp.Limit > 0
        /\ (params.limit.ok /\ params.limit.v >= 1) => qp.Limit = params.limit.v
        /\ (~params.limit.ok \/ params.limit.v <= 0) => qp.Limit = 20

\* a fetch that ran with the default after the caller sent a negative limit
C21_Witness ==
    /\ entry = "invoke"
    /\ FetchSucceeded
    /\ params.limit.ok /\ params.limit.v < 0
    /\ qp.Limit = 20
    /\ Len(ret.entries) = Len(store)

\* ------------------------------------------------------------------------
\* Properties of the cancellation
\* ------------------------------------------------------------------------

\* C22: when the caller cancels while the loop runs with fewer than limit entries
\* produced, the loop leaves early: the fetch does not end with the full limit of
\* entries as if the signal had not been raised.
C22_CancelStopsLoop ==
    (ctx.cancelled /\ ctx.at < qp.Limit /\ pc = "done") =>
        ~(ret.err = NoError /\ Len(ret.entries) = qp.Limit /\ Len(ret.entries) > ctx.at)

\* ------------------------------------------------------------------------
\* Properties of the backend calls of an invocation
\* ------------------------------------------------------------------------

\* a backend call of the invocation has failed
BackendFailed == meta.kind = "error" \/ iterErr

\* C23: nothing is retried: an invocation issues at most one metadata lookup and at
\* most one log query, and once a backend call has failed it makes no further
\* backend call (no lookup, no query, no pull).
C23_NoRetries ==
    [][/\ metaCalls' <= 1
       /\ logQueries' <= 1
       /\ BackendFailed =>
            (metaCalls' = metaCalls /\ logQueries' = logQueries /\ pulls' = pulls)
       /\ (meta'.kind = "error") => (logQueries' = 0 /\ pulls' = 0)]_vars

\* an invocation that made its lookup and its query and ended on a failed pull
C23_Witness ==
    /\ entry = "invoke"
    /\ pc = "done"
    /\ iterErr
    /\ metaCalls = 1 /\ logQueries = 1
    /\ pulls >= 2

\* C24: when the metadata lookup of the window resolution fails, the invocation
\* returns an error that wraps the lookup error with context, returns no entry,
\* and never issues the log query.
C24_LookupFailure ==
    (meta.kind = "error") =>
        /\ pc = "done"
        /\ ret.err.kind = "MetadataFetchFailed"
        /\ ret.err.wraps = "backend"
        /\ ret.entries = << >>
        /\ ~query.issued /\ logQueries = 0 /\ pulls = 0

\* a lookup made for a missing end bound failed
C24_Witness ==
    /\ meta.kind = "error"
    /\ metaCalls = 1
    /\ params.startTime.ok /\ ~params.endTime.ok
    /\ pc = "done"
    /\ ret.err # NoError

\* ------------------------------------------------------------------------
\* Properties of the URL functions that take a resource handle
\* ------------------------------------------------------------------------

\* the name of the handle is projects/P/locations/L/batches/B (sessions/B)
HandleNamed(P, L, B) == fx.name = NameOfForm(fx.kind, P, L, B)

\* C25: for a handle whose name is projects/P/locations/L/batches/B (sessions/B) the
\* logs URL of the handle is the logs URL of (P, L, B, createTime, stateTime) and
\* its console URL is the console URL of (P, L, B); for a handle whose name is of
\* another shape both return the error of the name and no URL.
C25_FromProtoEquivalence ==
    fx.op \in {"logsurlproto", "consoleurlproto"} =>
        /\ \A P \in NameSegments, L \in NameSegments, B \in NameSegments :
             HandleNamed(P, L, B) =>
                /\ fx.parsed.ok /\ fx.parsed.err = EmptyStr
                /\ fx.op = "logsurlproto" => fx.out = LogsURL(fx.kind, P, L, B, fx.start, fx.end)
                /\ fx.op = "consoleurlproto" => fx.out = ConsoleURL(fx.kind, P, L, B)
        /\ (~\E P \in NameSegments, L \in NameSegments, B \in NameSegments : HandleNamed(P, L, B)) =>
                /\ ~fx.parsed.ok
                /\ fx.parsed.err # EmptyStr
                /\ fx.out = EmptyStr

\* the URL of TestBatchLogsURLFromProto was built from its handle
C25_Witness ==
    /\ fx.op = "logsurlproto"
    /\ fx.kind = "batch"
    /\ fx.name = <<"p","r","o","j","e","c","t","s","/","m","y","-","p","r","o","j","e","c","t","/","l","o","c","a","t","i","o","n","s","/","u","s","-","c","e","n","t","r","a","l","1","/","b","a","t","c","h","e","s","/","m","y","-","b","a","t","c","h">>
    /\ fx.parsed.ok
    /\ fx.out = <<"h","t","t","p","s",":","/","/","c","o","n","s","o","l","e",".","c","l","o","u","d",".","g","o","o","g","l","e",".","c","o","m","/","l","o","g","s","/","v","i","e","w","e","r","?","a","d","v","a","n","c","e","d","F","i","l","t","e","r","=","r","e","s","o","u","r","c","e",".","t","y","p","e","%","3","D","%","2","2","c","l","o","u","d","_","d","a","t","a","p","r","o","c","_","b","a","t","c","h","%","2","2","%","0","A","r","e","s","o","u","r","c","e",".","l","a","b","e","l","s",".","p","r","o","j","e","c","t","_","i","d","%","3","D","%","2","2","m","y","-","p","r","o","j","e","c","t","%","2","2","%","0","A","r","e","s","o","u","r","c","e",".","l","a","b","e","l","s",".","l","o","c","a","t","i","o","n","%","3","D","%","2","2","u","s","-","c","e","n","t","r","a","l","1","%","2","2","%","0","A","r","e","s","o","u","r","c","e",".","l","a","b","e","l","s",".","b","a","t","c","h","_","i","d","%","3","D","%","2","2","m","y","-","b","a","t","c","h","%","2","2","%","0","A","t","i","m","e","s","t","a","m","p","%","3","E","%","3","D","%","2","2","2","0","2","5","-","1","0","-","0","1","T","0","4","%","3","A","5","9","%","3","A","0","0","Z","%","2","2","%","0","A","t","i","m","e","s","t","a","m","p","%","3","C","%","3","D","%","2","2","2","0","2","5","-","1","0","-","0","1","T","0","6","%","3","A","1","0","%","3","A","0","0","Z","%","2","2","&","p","r","o","j","e","c","t","=","m","y","-","p","r","o","j","e","c","t","&","r","e","s","o","u","r","c","e","=","c","l","o","u","d","_","d","a","t","a","p","r","o","c","_","b","a","t","c","h","%","2","F","b","a","t","c","h","_","i","d","%","2","F","m","y","-","b","a","t","c","h">>

\* ------------------------------------------------------------------------
\* Properties of the quoting
\* ------------------------------------------------------------------------

\* a written value read with the unescaping rule of the filter language: a
\* backslash stands for the character after it
UnescapeValue(raw) ==
    LET escaped(i) == i > 1 /\ raw[i - 1] = Backslash
                        /\ Cardinality({j \in 1..(i - 1) : \A k \in j..(i - 1) : raw[k] = Backslash}) % 2 = 1
    IN  Concat([i \in 1..Len(raw) |->
                  IF raw[i] = Backslash /\ ~escaped(i) /\ i < Len(raw) THEN << >> ELSE <<raw[i]>>])

\* C26: no value closes its quoted string early or adds a clause: for every id,
\* also one with a backslash next to a double quote, the filter reads as its six
\* clauses and each quoted value, read with the unescaping rule, is the value
\* that was passed.
C26_NoInjection ==
    fx.op = "filter" =>
        LET r == ReadClauses(fx.out, ExpectedFields(fx.kind))
        IN  /\ r.ok
            /\ UnescapeValue(r.vals[IdIndex(fx.kind)]) = fx.id
            /\ UnescapeValue(r.vals[IF fx.kind = "batch" THEN 2 ELSE 3]) = fx.project
            /\ UnescapeValue(r.vals[IF fx.kind = "batch" THEN 3 ELSE 4]) = fx.location

\* ------------------------------------------------------------------------
\* Termination of the fetch
\* ------------------------------------------------------------------------

\* C27: the fetch always ends: whatever the limit and the backend sequence
\* (shorter than, equal to or longer than the limit, or failing at some pull), a
\* fetch that has started reaches its return.
C27_FetchTerminates == (pc = "loop") ~> (pc = "done")

\* a fetch that ended on its limit with records left in the backend
C27_Witness ==
    /\ FetchSucceeded
    /\ qp.Limit >= 1
    /\ Len(store) > qp.Limit
    /\ Len(ret.entries) = qp.Limit

\* ------------------------------------------------------------------------
\* Interleaved invocations
\* ------------------------------------------------------------------------

\* the run of the loop of a call on its own, from position pos with buffer res
RECURSIVE LoopAlone(_, _, _)
LoopAlone(a, res, pos) ==
    LET seq == EntriesOrder(a.resp, a.q.NewestFirst)
    IN  IF ~LoopContinues(res, a.q.Limit) THEN [entries |-> res, err |-> NoError]
        ELSE IF pos = a.failAt THEN OnIterError(res)
        ELSE IF pos = Len(seq) THEN [entries |-> res, err |-> NoError]
        ELSE LoopAlone(a, Append(res, Project(seq[pos + 1], a.q.Verbose)), pos + 1)

\* what a call returns when it runs alone against the same backend responses
RunsAlone(a) ==
    IF ValidateTimes(a.q, "source") # NoError
    THEN [entries |-> << >>, err |-> ValidateTimes(a.q, "source")]
    ELSE LoopAlone(a, << >>, 0)

\* C28: invocations do not interfere. With two invocations interleaved against
\* one source, each one's window and filter are those its own arguments give, its
\* buffer holds the projections of the records it pulled itself, and what it
\* returns is what it returns when it runs alone against the same backend
\* responses.
C28_NoInterference ==
    \A i \in Invocations :
        LET f == calls.frame[i]
            a == calls.args[i]
            res == calls.results[i]
        IN  /\ f.query.issued => f.query = EntriesQuery(a.tool, a.q)
            /\ f.pc = "loop" =>
                   /\ Len(res) = f.it.pos
                   /\ \A k \in 1..Len(res) :
                          res[k] = Project(EntriesOrder(a.resp, a.q.NewestFirst)[k], a.q.Verbose)
            /\ f.pc = "done" => calls.got[i] = RunsAlone(a)

\* both invocations returned entries, after pulling while the other one was in
\* its loop with entries in its buffer, for different arguments
C28_Witness ==
    /\ calls.overlapped
    /\ \A i \in Invocations :
           /\ calls.frame[i].pc = "done"
           /\ calls.got[i].err = NoError
           /\ calls.got[i].entries # << >>
    /\ calls.args[1].q # calls.args[2].q
    /\ calls.got[1] # calls.got[2]

\* ------------------------------------------------------------------------
\* The id parameter and the resource name of the lookup
\* ------------------------------------------------------------------------

\* C29: an id that is missing, not a string, or has '/' in it is rejected with
\* an error before any backend call (no metadata lookup and no log query is
\* issued), so the resource name of every metadata request has exactly the six
\* segments projects / P / locations / L / batches or sessions / id.
C29_IdRejectedBeforeBackend ==
    entry = "invoke" =>
        /\ (~params.id.ok \/ Contains(params.id.v, "/")) =>
               /\ pc = "done"
               /\ ret.err # NoError
               /\ ret.entries = << >>
               /\ metaCalls = 0
               /\ logQueries = 0
               /\ ~query.issued
               /\ lookupName = EmptyStr
        /\ metaCalls > 0 =>
               Split(lookupName, "/") =
                   << <<"p","r","o","j","e","c","t","s">>, SrcProject,
                      <<"l","o","c","a","t","i","o","n","s">>, SrcLocation,
                      CollectionOf(tool), params.id.v >>

\* an invocation with an id of the form a/b has returned its error
C29_Witness ==
    /\ entry = "invoke"
    /\ params.id.ok
    /\ Contains(params.id.v, "/")
    /\ pc = "done"
    /\ ret.err.kind = "NotShortName"

\* ------------------------------------------------------------------------
\* Pulls and entries
\* ------------------------------------------------------------------------

\* the counts of the loop: every record pulled is in the buffer, at most limit
\* calls of it.Next were made, and only the last of them can have returned no
\* record
PullCounts ==
    /\ pulledOk = Len(results)
    /\ pulls <= qp.Limit
    /\ pulls - pulledOk \in {0, 1}
    /\ pulls > pulledOk => pc = "done"

\* a call of it.Next is made only with fewer than limit entries in the buffer
PullsBelowLimit == [][pulls' # pulls => Len(results) < qp.Limit]_vars

\* C30 as stated: the loop pulls no record that it does not return. In every
\* run the records pulled are the entries accumulated and the entries returned,
\* at most limit pulls are made, and none once limit entries were produced.
C30_PulledAreReturned ==
    /\ [](entry = "direct" => PullCounts)
    /\ [](entry = "direct" /\ pc = "done" => Len(ret.entries) = pulledOk)
    /\ PullsBelowLimit

\* C30, amended: in every run the records pulled are the entries accumulated,
\* at most limit pulls are made, and none once limit entries were produced; the
\* entries accumulated are the entries returned when the fetch ends without an
\* error, and none of them is returned when it ends with an iteration error.
C30_PulledAreAccumulated ==
    /\ [](entry = "direct" => PullCounts)
    /\ [](entry = "direct" /\ pc = "done" =>
              Len(ret.entries) = (IF ret.err = NoError THEN pulledOk ELSE 0))
    /\ PullsBelowLimit

\* a fetch that pulled a record and then met an iteration error: it returns none
C30_Witness ==
    /\ entry = "direct"
    /\ pc = "done"
    /\ iterErr
    /\ pulledOk >= 1
    /\ pulls = pulledOk + 1
    /\ ret.entries = << >>

====
